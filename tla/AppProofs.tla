----------------------------- MODULE AppProofs -----------------------------
(***************************************************************************)
(* Proofs about the React page: its submission hook, for any number of     *)
(* calls, retries and polls, and its wallet provider, for any networks and *)
(* any number of events.                                                   *)
(***************************************************************************)
EXTENDS App, FiniteSetTheorems, SequenceTheorems, TLAPS

----------------------------------------------------------------------------
(* What was sent *)

TxRecord == [run : 1..MaxCalls, state : {"pending", "success", "failed"}]

LiveIn(S, r) == {i \in DOMAIN S : S[i].run = r /\ S[i].state # "failed"}

\* A transaction more: the others keep their places, and only its own run has
\* another one that may land.
LEMMA SentFacts ==
    ASSUME NEW S \in Seq(TxRecord), NEW e \in TxRecord
    PROVE  LET T == Append(S, e)
           IN  /\ T \in Seq(TxRecord) /\ Len(T) = Len(S) + 1 /\ Len(S) \in Nat
               /\ DOMAIN S = 1..Len(S) /\ DOMAIN T = 1..Len(T) /\ DOMAIN S \subseteq DOMAIN T
               /\ Len(T) \in DOMAIN T /\ T[Len(T)] = e
               /\ \A i \in DOMAIN S : T[i] = S[i]
               /\ \A q : q # e.run => LiveIn(T, q) = LiveIn(S, q)
               /\ \A q : LiveIn(T, q) \subseteq LiveIn(S, q) \cup {Len(T)}
               /\ e.state = "failed" => \A q : LiveIn(T, q) = LiveIn(S, q)
<1> DEFINE T == Append(S, e)
<1>1. /\ T \in Seq(TxRecord) /\ Len(T) = Len(S) + 1 /\ Len(S) \in Nat
      /\ DOMAIN S = 1..Len(S) /\ DOMAIN T = 1..Len(T) /\ DOMAIN S \subseteq DOMAIN T
      /\ Len(T) \in DOMAIN T /\ T[Len(T)] = e
      /\ \A i \in DOMAIN S : T[i] = S[i]
      /\ \A i \in DOMAIN T : i \in DOMAIN S \/ i = Len(T)
  OBVIOUS
<1> HIDE DEF T
<1>2. \A q : q # e.run => LiveIn(T, q) = LiveIn(S, q)
  BY <1>1 DEF LiveIn
<1>3. \A q : LiveIn(T, q) \subseteq LiveIn(S, q) \cup {Len(T)}
  BY <1>1 DEF LiveIn
<1>4. e.state = "failed" => \A q : LiveIn(T, q) = LiveIn(S, q)
  BY <1>1 DEF LiveIn
<1> QED
  BY <1>1, <1>2, <1>3, <1>4 DEF T

----------------------------------------------------------------------------
(* The invariant, run by run *)

NothingOut == {"none", "simulate", "sign", "send", "wait"}
Polling == {"poll", "pollwait"}

\* Run r may stand at n when S was sent and the runs in B are blind
RunOK(r, n, S, B) ==
    /\ n \in Run
    /\ n.at \in Polling => n.hash \in DOMAIN S
    /\ n.at = "wait" => n.attempt < TotalAllowedAttempts
    /\ n.kind = "refetch" => n.at \in Polling
    /\ r \notin B =>
        /\ (n.at \in NothingOut \/ n.kind = "refetch") => LiveIn(S, r) = {}
        /\ n.at \in Polling => LiveIn(S, r) \subseteq {n.hash}
        /\ \A i, j \in LiveIn(S, r) : i = j

\* The result u shows was taken for a success unasked
Taken(u, lp, la) ==
    \/ u.by = "noPoller" /\ ~lp /\ la # "polled"
    \/ u.by = "object" /\ la # "polled"

\* u may be shown when S was sent, the client can poll (lp) and la came last
UiOK(u, S, lp, la) ==
    /\ u \in Shown /\ u.hash \in 0..Len(S) /\ u.data \in 0..Len(S)
    /\ u.status = "confirmed" =>
         /\ u.data # NoHash /\ u.hash = u.data /\ ~u.error
         /\ S[u.data].state = "success" \/ Taken(u, lp, la)

SInv ==
    /\ ledgerPoll \in BOOLEAN /\ mounted \in BOOLEAN
    /\ last \in {"none", "staged", "polled", "whole"}
    /\ runId \in Nat /\ calls \in Nat /\ runId + calls <= MaxCalls
    /\ sent \in Seq(TxRecord) /\ blind \subseteq 1..MaxCalls
    /\ run \in [1..MaxCalls -> Run]
    /\ \A r \in 1..MaxCalls : r > runId => run[r] = NoRun
    /\ \A r \in 1..MaxCalls : RunOK(r, run[r], sent, blind)
    /\ UiOK(ui, sent, ledgerPoll, last)
    /\ (ui.status = "confirmed" /\ mounted) => runId # 0 /\ run[runId].at = "over"

\* The runs' own properties are this invariant.
LEMMA SInvIs == SubmitTypeOK /\ ConfirmedIsApplied /\ RunsKnowWhatTheySent <=> SInv
<1>1. \A r : Live(r) = LiveIn(sent, r)
  BY DEF Live, LiveIn
<1>2. ASSUME SubmitTypeOK, ConfirmedIsApplied, RunsKnowWhatTheySent PROVE SInv
  <2>1. \A r \in 1..MaxCalls : RunOK(r, run[r], sent, blind)
    BY <1>1, <1>2 DEF SubmitTypeOK, RunsKnowWhatTheySent, RunOK, NothingOut, Polling
  <2>2. UiOK(ui, sent, ledgerPoll, last)
    BY <1>2 DEF SubmitTypeOK, ConfirmedIsApplied, UiOK, Taken, canPoll, hasPollStatus
  <2> QED
    BY <1>2, <2>1, <2>2 DEF SubmitTypeOK, RunsKnowWhatTheySent, SInv, TxRecord
<1>3. ASSUME SInv PROVE SubmitTypeOK /\ ConfirmedIsApplied /\ RunsKnowWhatTheySent
  <2>1. RunsKnowWhatTheySent
    BY <1>1, <1>3 DEF SInv, RunOK, RunsKnowWhatTheySent, NothingOut, Polling
  <2>2. SubmitTypeOK /\ ConfirmedIsApplied
    BY <1>3 DEF SInv, UiOK, Taken, canPoll, hasPollStatus,
                        SubmitTypeOK, ConfirmedIsApplied, TxRecord
  <2> QED
    BY <2>1, <2>2
<1> QED
  BY <1>2, <1>3

\* With at most one transaction per run, one count is at most one.
LEMMA OneLands == SInv => LandsOnceUnlessBlind
<1> SUFFICES ASSUME SInv, NEW r \in 1..MaxCalls \ blind
             PROVE  Cardinality(Live(r)) <= 1
  BY DEF LandsOnceUnlessBlind
<1>1. \A i, j \in Live(r) : i = j
  BY DEF SInv, RunOK, Live, LiveIn
<1>2. CASE Live(r) = {}
  BY <1>2, FS_EmptySet
<1>3. CASE Live(r) # {}
  <2>1. PICK i : Live(r) = {i}
    BY <1>1, <1>3
  <2> QED
    BY <2>1, FS_Singleton
<1> QED
  BY <1>2, <1>3

----------------------------------------------------------------------------
(* The steps of a run *)

\* What is shown stays right when transactions are added.
LEMMA UiGrows ==
    ASSUME NEW S \in Seq(TxRecord), NEW e \in TxRecord, NEW u, NEW lp, NEW la, UiOK(u, S, lp, la)
    PROVE  UiOK(u, Append(S, e), lp, la)
<1> DEFINE T == Append(S, e)
<1>1. /\ Len(T) = Len(S) + 1 /\ Len(S) \in Nat /\ DOMAIN S = 1..Len(S)
      /\ \A i \in DOMAIN S : T[i] = S[i]
  BY SentFacts
<1> HIDE DEF T
<1>2. UiOK(u, T, lp, la)
  BY <1>1 DEF UiOK, NoHash
<1> QED
  BY <1>2 DEF T

\* sent' is sent, or has one transaction of run r more
Sends(r) == sent' = sent \/ \E s \in {"pending", "success", "failed"} :
                               sent' = Append(sent, [run |-> r, state |-> s])

\* The ledger only grows: other runs' transactions are left alone, and what is
\* shown stays right.
LEMMA SentGrows ==
    ASSUME SInv, NEW r \in 1..MaxCalls, Sends(r)
    PROVE  /\ sent' \in Seq(TxRecord) /\ DOMAIN sent \subseteq DOMAIN sent'
           /\ \A q \in 1..MaxCalls : q # r => LiveIn(sent', q) = LiveIn(sent, q)
           /\ UiOK(ui, sent', ledgerPoll, last)
<1>1. sent \in Seq(TxRecord) /\ UiOK(ui, sent, ledgerPoll, last)
  BY DEF SInv
<1>2. CASE sent' = sent
  BY <1>1, <1>2
<1>3. ASSUME NEW s \in {"pending", "success", "failed"},
             sent' = Append(sent, [run |-> r, state |-> s])
      PROVE  /\ sent' \in Seq(TxRecord) /\ DOMAIN sent \subseteq DOMAIN sent'
             /\ \A q \in 1..MaxCalls : q # r => LiveIn(sent', q) = LiveIn(sent, q)
             /\ UiOK(ui, sent', ledgerPoll, last)
  <2> DEFINE e == [run |-> r, state |-> s]
  <2>1. e \in TxRecord /\ e.run = r
    BY DEF TxRecord
  <2> HIDE DEF e
  <2>2. sent' = Append(sent, e)
    BY <1>3 DEF e
  <2>3. UiOK(ui, Append(sent, e), ledgerPoll, last)
    BY <1>1, <2>1, UiGrows
  <2> QED
    BY <1>1, <2>1, <2>2, <2>3, SentFacts
<1> QED
  BY <1>2, <1>3 DEF Sends

\* An ended run.
LEMMA OverOK ==
    ASSUME NEW r, NEW S, NEW B, r \notin B => \A i, j \in LiveIn(S, r) : i = j
    PROVE  RunOK(r, Over, S, B)
<1>1. TotalAllowedAttempts \in Nat /\ MaxPolls - 1 \in Nat
  BY BoundsAssumption DEF TotalAllowedAttempts
<1>2. Over \in Run /\ Over.at = "over" /\ Over.kind = "none"
  BY <1>1 DEF Over, NoRun, Run, NoHash
<1> QED
  BY <1>2 DEF RunOK, NothingOut, Polling

\* A step of run r keeps the invariant when what it writes is right.
LEMMA StepKeeps ==
    ASSUME SInv, NEW r \in 1..MaxCalls, NEW n, NEW u, Step(r, n, u), Sends(r),
           blind' = blind \/ blind' = blind \cup {r},
           UNCHANGED <<ledgerPoll, mounted, runId, last, calls>>,
           run[r].at # "none", run[r].at # "over",
           RunOK(r, n, sent', blind'),
           \/ u = ui \/ ~Current(r)
           \/ UiOK(u, sent', ledgerPoll, last) /\ (u.status = "confirmed" => n.at = "over")
    PROVE  SInv'
<1>1. sent \in Seq(TxRecord) /\ run \in [1..MaxCalls -> Run]
  BY DEF SInv
<1>2. /\ sent' \in Seq(TxRecord) /\ DOMAIN sent \subseteq DOMAIN sent'
      /\ \A q \in 1..MaxCalls : q # r => LiveIn(sent', q) = LiveIn(sent, q)
      /\ UiOK(ui, sent', ledgerPoll, last)
  BY SentGrows
<1>3. r \notin blind' => \A i, j \in LiveIn(sent', r) : i = j
  BY DEF RunOK
<1>4. RunOK(r, Over, sent', blind')
  BY <1>3, OverOK
<1>5. ASSUME NEW q \in 1..MaxCalls
      PROVE  RunOK(q, run'[q], sent', blind')
  <2>1. CASE q = r
    BY <1>1, <1>4, <2>1 DEF Step
  <2>2. CASE q # r
    <3>1. run'[q] = run[q] /\ (q \notin blind' => q \notin blind)
      BY <1>1, <2>2 DEF Step
    <3>2. RunOK(q, run[q], sent, blind)
      BY DEF SInv
    <3> QED
      BY <1>2, <2>2, <3>1, <3>2 DEF RunOK
  <2> QED
    BY <2>1, <2>2
<1>6. run' \in [1..MaxCalls -> Run]
  BY <1>1, <1>4 DEF Step, RunOK
<1>7. r <= runId
  BY DEF SInv, NoRun
<1>8. \A q \in 1..MaxCalls : q > runId => run'[q] = NoRun
  BY <1>1, <1>7 DEF Step, SInv
<1>9. UiOK(ui', sent', ledgerPoll', last')
  BY <1>2 DEF Step
<1>10. (ui'.status = "confirmed" /\ mounted') => runId' # 0 /\ run'[runId'].at = "over"
  <2>1. CASE Current(r)
    BY <1>1, <2>1 DEF Step, Current, SInv
  <2>2. CASE ~Current(r)
    BY <1>1, <2>2 DEF Step, Current, SInv
  <2> QED
    BY <2>1, <2>2
<1>11. blind' \subseteq 1..MaxCalls
  BY DEF SInv
<1> QED
  BY <1>2, <1>5, <1>6, <1>8, <1>9, <1>10, <1>11 DEF SInv

\* The fields of a run and of what is shown.
LEMMA RunFields ==
    ASSUME NEW n \in Run
    PROVE  /\ n.kind \in {"none", "staged", "polled", "whole", "refetch"}
           /\ n.attempt \in 0..TotalAllowedAttempts /\ n.hash \in Nat
           /\ n.polls \in 0..(MaxPolls - 1)
BY DEF Run

\* A run with nothing out may go on to any stage before the next send.
LEMMA StageOK ==
    ASSUME NEW r, NEW n \in Run, NEW S, NEW B, NEW y \in {"simulate", "sign", "send", "wait"},
           n.kind # "refetch", y = "wait" => n.attempt < TotalAllowedAttempts,
           r \notin B => LiveIn(S, r) = {}
    PROVE  RunOK(r, [n EXCEPT !.at = y], S, B)
<1> DEFINE m == [n EXCEPT !.at = y]
<1>1. m \in Run /\ m.at = y /\ m.kind = n.kind /\ m.attempt = n.attempt
  BY DEF Run
<1> HIDE DEF m
<1>2. RunOK(r, m, S, B)
  BY <1>1 DEF RunOK, Polling
<1> QED
  BY <1>2 DEF m

\* A new status is shown with the hash and the data that were.
LEMMA StatusOK ==
    ASSUME NEW S, NEW lp, NEW la, UiOK(ui, S, lp, la), NEW y, NEW x \in BOOLEAN,
           y \in {"idle", "simulating", "signing", "submitting", "failed"}
    PROVE  /\ UiOK([ui EXCEPT !.status = y, !.error = x], S, lp, la)
           /\ UiOK([ui EXCEPT !.status = y], S, lp, la)
           /\ [ui EXCEPT !.status = y, !.error = x].status # "confirmed"
           /\ [ui EXCEPT !.status = y].status # "confirmed"
<1> DEFINE u == [ui EXCEPT !.status = y, !.error = x]
           v == [ui EXCEPT !.status = y]
<1>1. ui \in Shown
  BY DEF UiOK
<1>2. /\ u \in Shown /\ u.hash = ui.hash /\ u.data = ui.data /\ u.status = y
      /\ v \in Shown /\ v.hash = ui.hash /\ v.data = ui.data /\ v.status = y
  BY <1>1 DEF Shown
<1> HIDE DEF u, v
<1>3. UiOK(u, S, lp, la) /\ UiOK(v, S, lp, la) /\ u.status # "confirmed" /\ v.status # "confirmed"
  BY <1>2 DEF UiOK
<1> QED
  BY <1>3 DEF u, v

\* The catch block: a retry is only begun with nothing out that could land.
LEMMA CaughtKeeps ==
    ASSUME SInv, NEW r \in 1..MaxCalls, NEW terminal \in BOOLEAN, Caught(r, terminal), Sends(r),
           blind' = blind \/ blind' = blind \cup {r},
           UNCHANGED <<ledgerPoll, mounted, runId, last, calls>>,
           run[r].at # "none", run[r].at # "over",
           ~terminal => run[r].kind # "refetch" /\ (r \notin blind' => LiveIn(sent', r) = {}),
           r \notin blind' => \A i, j \in LiveIn(sent', r) : i = j
    PROVE  SInv'
<1>1. run[r] \in Run
  BY DEF SInv
<1>2. CASE run[r].attempt < TotalAllowedAttempts /\ ~terminal
  <2> DEFINE n == [run[r] EXCEPT !.at = "wait"]
  <2>1. RunOK(r, n, sent', blind')
    BY <1>1, <1>2, StageOK
  <2>2. Step(r, n, ui)
    BY <1>2 DEF Caught
  <2> HIDE DEF n
  <2> QED
    BY <2>1, <2>2, StepKeeps
<1>3. CASE ~(run[r].attempt < TotalAllowedAttempts /\ ~terminal)
  <2> DEFINE u == [ui EXCEPT !.status = "failed", !.error = TRUE]
  <2>1. RunOK(r, Over, sent', blind')
    BY OverOK
  <2>2. Step(r, Over, u)
    BY <1>3 DEF Caught
  <2>3. UiOK(ui, sent', ledgerPoll, last)
    BY SentGrows
  <2>4. UiOK(u, sent', ledgerPoll, last) /\ u.status # "confirmed"
    BY <2>3, StatusOK
  <2> HIDE DEF u
  <2> QED
    BY <2>1, <2>2, <2>4, StepKeeps
<1> QED
  BY <1>2, <1>3

\* What the invariant says of a run that has nothing out.
LEMMA AtStage ==
    ASSUME SInv, NEW r \in 1..MaxCalls, run[r].at \in {"simulate", "sign", "send", "wait"}
    PROVE  /\ run[r] \in Run /\ run[r].at # "none" /\ run[r].at # "over"
           /\ run[r].kind # "refetch"
           /\ r \notin blind => LiveIn(sent, r) = {}
           /\ Current(r) => ui.status # "confirmed"
           /\ run[r].at = "wait" => run[r].attempt < TotalAllowedAttempts
           /\ sent \in Seq(TxRecord) /\ ui \in Shown /\ UiOK(ui, sent, ledgerPoll, last)
<1>1. RunOK(r, run[r], sent, blind) /\ UiOK(ui, sent, ledgerPoll, last)
  BY DEF SInv
<1>2. Current(r) => ui.status # "confirmed"
  BY DEF SInv, Current
<1> QED
  BY <1>1, <1>2 DEF RunOK, UiOK, NothingOut, Polling, SInv

\* What a step that sends nothing leaves alone
Silent == UNCHANGED <<ledgerPoll, mounted, runId, last, sent, blind, calls>>

\* The catch block of a stage that sent nothing.
LEMMA StageCaught ==
    ASSUME SInv, NEW r \in 1..MaxCalls, run[r].at \in {"simulate", "sign", "send"},
           NEW terminal \in BOOLEAN, Caught(r, terminal), Silent
    PROVE  SInv'
<1>1. /\ run[r].at # "none" /\ run[r].at # "over" /\ run[r].kind # "refetch"
      /\ r \notin blind => LiveIn(sent, r) = {}
  BY AtStage
<1>2. Sends(r) /\ sent' = sent /\ blind' = blind
      /\ UNCHANGED <<ledgerPoll, mounted, runId, last, calls>>
  BY DEF Sends, Silent
<1>3. r \notin blind' => LiveIn(sent', r) = {}
  BY <1>1, <1>2
<1> QED
  BY <1>1, <1>2, <1>3, CaughtKeeps

\* The simulation and the signature: each opens the next stage.
LEMMA StageStep ==
    ASSUME SInv, NEW r \in 1..MaxCalls, run[r].at \in {"simulate", "sign"},
           NEW y \in {"sign", "send"}, NEW z \in {"signing", "submitting"},
           Step(r, [run[r] EXCEPT !.at = y], [ui EXCEPT !.status = z]), Silent
    PROVE  SInv'
<1> DEFINE n == [run[r] EXCEPT !.at = y]
           u == [ui EXCEPT !.status = z]
<1>1. /\ run[r] \in Run /\ run[r].at # "none" /\ run[r].at # "over" /\ run[r].kind # "refetch"
      /\ r \notin blind => LiveIn(sent, r) = {}
      /\ UiOK(ui, sent, ledgerPoll, last)
  BY AtStage
<1>2. Sends(r) /\ sent' = sent /\ blind' = blind
      /\ UNCHANGED <<ledgerPoll, mounted, runId, last, calls>>
  BY DEF Sends, Silent
<1>3. RunOK(r, n, sent', blind')
  BY <1>1, <1>2, StageOK
<1>4. UiOK(u, sent', ledgerPoll, last) /\ u.status # "confirmed"
  BY <1>1, <1>2, StatusOK
<1>5. Step(r, n, u)
  OBVIOUS
<1> HIDE DEF n, u
<1> QED
  BY <1>1, <1>2, <1>3, <1>4, <1>5, StepKeeps

\* Simulated and Signed.
LEMMA SimulatedSigned ==
    ASSUME SInv, NEW r \in 1..MaxCalls, Simulated(r) \/ Signed(r)
    PROVE  SInv'
<1>1. CASE Simulated(r)
  <2>1. run[r].at = "simulate" /\ Silent
    BY <1>1 DEF Simulated, Silent
  <2>2. CASE Step(r, [run[r] EXCEPT !.at = "sign"], [ui EXCEPT !.status = "signing"])
    BY <2>1, <2>2, StageStep
  <2>3. CASE \E terminal \in isTerminalTransactionError : Caught(r, terminal)
    BY <2>1, <2>3, StageCaught DEF isTerminalTransactionError
  <2> QED
    BY <1>1, <2>2, <2>3 DEF Simulated
<1>2. CASE Signed(r)
  <2>1. run[r].at = "sign" /\ Silent
    BY <1>2 DEF Signed, Silent
  <2>2. CASE Step(r, [run[r] EXCEPT !.at = "send"], [ui EXCEPT !.status = "submitting"])
    BY <2>1, <2>2, StageStep
  <2>3. CASE \E terminal \in isTerminalTransactionError : Caught(r, terminal)
    BY <2>1, <2>3, StageCaught DEF isTerminalTransactionError
  <2> QED
    BY <1>2, <2>2, <2>3 DEF Signed
<1> QED
  BY <1>1, <1>2

\* RetryTimer: the attempt is counted and starts from the first stage.
LEMMA RetryStep ==
    ASSUME SInv, NEW r \in 1..MaxCalls, RetryTimer(r)
    PROVE  SInv'
<1> DEFINE n == NextAttempt(r)
           u == [ui EXCEPT !.status = "simulating", !.retries = run[r].attempt]
<1>1. run[r].at = "wait" /\ Silent /\ Step(r, n, u)
  BY DEF RetryTimer, Silent
<1>2. /\ run[r] \in Run /\ run[r].at # "none" /\ run[r].at # "over" /\ run[r].kind # "refetch"
      /\ r \notin blind => LiveIn(sent, r) = {}
      /\ run[r].attempt < TotalAllowedAttempts
      /\ UiOK(ui, sent, ledgerPoll, last) /\ ui \in Shown
  BY <1>1, AtStage
<1>3. Sends(r) /\ sent' = sent /\ blind' = blind
      /\ UNCHANGED <<ledgerPoll, mounted, runId, last, calls>>
  BY <1>1 DEF Sends, Silent
<1>4. Retries \in Nat /\ MaxPolls - 1 \in Nat /\ TotalAllowedAttempts = 1 + Retries
      /\ run[r].attempt \in 0..Retries /\ run[r].attempt + 1 \in 0..TotalAllowedAttempts
  BY <1>2, BoundsAssumption, RunFields DEF TotalAllowedAttempts
<1>5. n \in Run /\ n.at = "simulate" /\ n.kind = run[r].kind
  <2> DEFINE m == run[r]
             a == m.attempt + 1
             w == [m EXCEPT !.at = "simulate", !.attempt = a, !.hash = 0, !.polls = 0]
  <2>1. n = w
    BY DEF NextAttempt, NoHash
  <2>2. a \in 0..TotalAllowedAttempts /\ 0 \in 0..(MaxPolls - 1) /\ 0 \in Nat
    BY <1>4
  <2>3. m \in Run
    BY <1>2
  <2> HIDE DEF a, n, m
  <2>4. w \in Run /\ w.at = "simulate" /\ w.kind = m.kind
    BY <2>2, <2>3 DEF Run
  <2> QED
    BY <2>1, <2>4 DEF m
<1>6. u \in Shown /\ u.hash = ui.hash /\ u.data = ui.data /\ u.status = "simulating"
  BY <1>2, <1>4 DEF Shown
<1> HIDE DEF n, u
<1>7. RunOK(r, n, sent', blind')
  BY <1>2, <1>3, <1>5 DEF RunOK, Polling
<1>8. UiOK(u, sent', ledgerPoll, last)
  BY <1>2, <1>3, <1>6 DEF UiOK
<1> QED
  BY <1>1, <1>2, <1>3, <1>6, <1>7, <1>8, StepKeeps

\* The hash of a transaction that is out may be shown.
LEMMA HashOK ==
    ASSUME NEW S, UiOK(ui, S, ledgerPoll, last), NEW h \in 0..Len(S), ui.status # "confirmed"
    PROVE  LET u == [ui EXCEPT !.hash = h]
           IN  UiOK(u, S, ledgerPoll, last) /\ u.status # "confirmed" /\ Len(S) \in Int
<1> DEFINE u == [ui EXCEPT !.hash = h]
<1>1. ui \in Shown
  BY DEF UiOK
<1>2. h \in Nat
  OBVIOUS
<1>3. u \in Shown /\ u.hash = h /\ u.data = ui.data /\ u.status = ui.status
  BY <1>1, <1>2 DEF Shown
<1> HIDE DEF u
<1> QED
  BY <1>3 DEF UiOK, u

\* A shown state that is not confirmed only has to know its hashes.
LEMMA ShownOK ==
    ASSUME NEW u \in Shown, NEW S, NEW lp, NEW la, u.hash \in 0..Len(S), u.data \in 0..Len(S),
           u.status # "confirmed"
    PROVE  UiOK(u, S, lp, la)
BY DEF UiOK

\* Run r's transaction reaches the ledger.
LEMMA SendsOne ==
    ASSUME SInv, NEW r \in 1..MaxCalls, NEW s \in {"pending", "success", "failed"},
           sent' = Append(sent, [run |-> r, state |-> s])
    PROVE  /\ Sends(r) /\ Len(sent') \in Nat /\ Len(sent') # 0 /\ Len(sent') \in DOMAIN sent'
           /\ sent'[Len(sent')].state = s
           /\ LiveIn(sent', r) \subseteq LiveIn(sent, r) \cup {Len(sent')}
           /\ s = "failed" => LiveIn(sent', r) = LiveIn(sent, r)
<1> DEFINE e == [run |-> r, state |-> s]
<1>1. e \in TxRecord /\ e.run = r /\ e.state = s
  BY DEF TxRecord
<1>2. Sends(r)
  BY DEF Sends
<1> HIDE DEF e
<1>3. sent' = Append(sent, e) /\ sent \in Seq(TxRecord)
  BY DEF e, SInv
<1>4. /\ Len(sent') = Len(sent) + 1 /\ Len(sent) \in Nat /\ Len(sent') \in DOMAIN sent'
      /\ sent'[Len(sent')] = e
      /\ LiveIn(sent', r) \subseteq LiveIn(sent, r) \cup {Len(sent')}
      /\ e.state = "failed" => LiveIn(sent', r) = LiveIn(sent, r)
  BY <1>1, <1>3, SentFacts
<1> QED
  BY <1>1, <1>2, <1>4

\* A transaction was sent and its run lost sight of it.
LEMMA LostKeeps ==
    ASSUME SInv, NEW r \in 1..MaxCalls, run[r].at \in {"simulate", "send"},
           Reached(r), LosesSight(r), Caught(r, FALSE),
           UNCHANGED <<ledgerPoll, mounted, runId, last, calls>>
    PROVE  SInv'
<1>1. run[r].at # "none" /\ run[r].at # "over" /\ run[r].kind # "refetch"
  BY AtStage
<1>2. Sends(r)
  BY SendsOne DEF Reached
<1>3. blind' = blind \cup {r} /\ r \in blind'
  BY DEF LosesSight
<1> QED
  BY <1>1, <1>2, <1>3, CaughtKeeps

\* A result is shown, and the run that has it is over.
LEMMA ConfirmKeeps ==
    ASSUME SInv, NEW r \in 1..MaxCalls, NEW h \in DOMAIN sent', h \in 0..Len(sent'), h # 0,
           NEW by \in {"answer", "noPoller", "object"},
           \/ ~Current(r)
           \/ sent'[h].state = "success"
           \/ by = "noPoller" /\ ~canPoll
           \/ by = "object" /\ ~hasPollStatus,
           Confirmed(r, h, by), Sends(r), blind' = blind,
           UNCHANGED <<ledgerPoll, mounted, runId, last, calls>>,
           run[r].at # "none", run[r].at # "over",
           r \notin blind => \A i, j \in LiveIn(sent', r) : i = j
    PROVE  SInv'
<1> DEFINE u == [ui EXCEPT !.status = "confirmed", !.hash = h, !.data = h,
                         !.error = FALSE, !.by = by]
<1>1. Step(r, Over, u)
  BY DEF Confirmed
<1>2. ui \in Shown /\ h \in Nat
  BY DEF SInv, UiOK
<1>3. u \in Shown /\ u.hash = h /\ u.data = h /\ ~u.error /\ u.by = by
  BY <1>2 DEF Shown
<1> HIDE DEF u
<1>4. ~Current(r) \/ UiOK(u, sent', ledgerPoll, last)
  BY <1>3 DEF UiOK, NoHash, Taken, canPoll, hasPollStatus
<1>5. RunOK(r, Over, sent', blind') /\ Over.at = "over"
  BY OverOK DEF Over, NoRun
<1> QED
  BY <1>1, <1>4, <1>5, StepKeeps

\* An action returns a result with its own word on the success.
LEMMA ReturnsStep ==
    ASSUME SInv, NEW r \in 1..MaxCalls, run[r].at \in {"simulate", "send"}, Returns(r),
           blind' = blind, UNCHANGED <<ledgerPoll, mounted, runId, last, calls>>
    PROVE  SInv'
<1>1. run[r].at \in {"simulate", "send"} /\ UNCHANGED <<ledgerPoll, mounted, runId, last, calls>>
  OBVIOUS
<1>2. /\ run[r] \in Run /\ run[r].at # "none" /\ run[r].at # "over"
      /\ run[r].kind # "refetch"
      /\ r \notin blind => LiveIn(sent, r) = {}
      /\ ui \in Shown
  BY <1>1, AtStage
<1> DEFINE h == Len(sent')
<1>3. ASSUME sent' = Append(sent, [run |-> r, state |-> "success"]), blind' = blind,
             Confirmed(r, h, "answer")
      PROVE  SInv'
  <2>1. /\ Sends(r) /\ h \in Nat /\ h # 0 /\ h \in DOMAIN sent' /\ sent'[h].state = "success"
        /\ LiveIn(sent', r) \subseteq LiveIn(sent, r) \cup {h}
    BY <1>3, SendsOne
  <2>2. h \in 0..Len(sent')
    BY <2>1
  <2>3. r \notin blind => \A i, j \in LiveIn(sent', r) : i = j
    BY <1>2, <2>1
  <2> HIDE DEF h
  <2> QED
    BY <1>1, <1>2, <1>3, <2>1, <2>2, <2>3, ConfirmKeeps
<1>4. ASSUME sent' = Append(sent, [run |-> r, state |-> "failed"]), blind' = blind,
             IF run[r].attempt < TotalAllowedAttempts
             THEN Step(r, [run[r] EXCEPT !.at = "wait"], [ui EXCEPT !.hash = h])
             ELSE Step(r, Over, [ui EXCEPT !.status = "failed", !.error = TRUE, !.hash = h])
      PROVE  SInv'
  <2> DEFINE n == [run[r] EXCEPT !.at = "wait"]
             u == [ui EXCEPT !.hash = h]
             v == [ui EXCEPT !.status = "failed", !.error = TRUE, !.hash = h]
  <2>1. Sends(r) /\ h \in Nat /\ LiveIn(sent', r) = LiveIn(sent, r)
    BY <1>4, SendsOne
  <2>2. h \in 0..Len(sent')
    BY <2>1
  <2>3. UiOK(ui, sent', ledgerPoll, last)
    BY <2>1, SentGrows
  <2>4. Current(r) => ui.status # "confirmed"
    BY <1>1, AtStage
  <2>5. Current(r) => UiOK(u, sent', ledgerPoll, last) /\ u.status # "confirmed"
    BY <2>2, <2>3, <2>4, HashOK
  <2>6. UiOK(v, sent', ledgerPoll, last) /\ v.status # "confirmed"
    <3> HIDE DEF h
    <3>1. v \in Shown /\ v.hash = h /\ v.data = ui.data /\ v.status = "failed"
      BY <1>2, <2>1 DEF Shown
    <3> HIDE DEF v
    <3> QED
      BY <2>2, <2>3, <3>1, ShownOK DEF UiOK
  <2>7. r \notin blind' => LiveIn(sent', r) = {}
    BY <1>2, <1>4, <2>1
  <2>8. CASE run[r].attempt < TotalAllowedAttempts
    <3>1. Step(r, n, u)
      BY <1>4, <2>8
    <3>2. RunOK(r, n, sent', blind')
      BY <1>2, <2>7, <2>8, StageOK
    <3> HIDE DEF n, u, v, h
    <3> QED
      BY <1>1, <1>2, <1>4, <2>1, <2>5, <3>1, <3>2, StepKeeps
  <2>9. CASE ~(run[r].attempt < TotalAllowedAttempts)
    <3>1. Step(r, Over, v)
      BY <1>4, <2>9
    <3>2. RunOK(r, Over, sent', blind')
      BY <2>7, OverOK
    <3> HIDE DEF n, u, v, h
    <3> QED
      BY <1>1, <1>2, <1>4, <2>1, <2>6, <3>1, <3>2, StepKeeps
  <2> QED
    BY <2>8, <2>9
<1> QED
  BY <1>3, <1>4 DEF Returns

\* Sent: the hash of what is now out, or an error before or after it went out.
LEMMA SentStep ==
    ASSUME SInv, NEW r \in 1..MaxCalls, Sent(r)
    PROVE  SInv'
<1>1. run[r].at = "send" /\ UNCHANGED <<ledgerPoll, mounted, runId, last, calls>>
  BY DEF Sent
<1>2. ASSUME Reached(r), blind' = blind,
             Step(r, [run[r] EXCEPT !.at = "poll", !.hash = Len(sent')],
                  [ui EXCEPT !.hash = Len(sent')])
      PROVE  SInv'
  <2> DEFINE h == Len(sent')
             n == [run[r] EXCEPT !.at = "poll", !.hash = h]
             u == [ui EXCEPT !.hash = h]
  <2>1. /\ Sends(r) /\ h \in Nat /\ h \in DOMAIN sent'
        /\ LiveIn(sent', r) \subseteq LiveIn(sent, r) \cup {h}
    BY <1>2, SendsOne DEF Reached
  <2>2. /\ run[r] \in Run /\ run[r].at # "none" /\ run[r].at # "over"
        /\ run[r].kind # "refetch"
        /\ r \notin blind => LiveIn(sent, r) = {}
        /\ Current(r) => ui.status # "confirmed"
    BY <1>1, AtStage
  <2>3. UiOK(ui, sent', ledgerPoll, last)
    BY <2>1, SentGrows
  <2>4. Step(r, n, u)
    BY <1>2
  <2>5. h \in 0..Len(sent')
    BY <2>1
  <2>6. Current(r) => UiOK(u, sent', ledgerPoll, last) /\ u.status # "confirmed"
    BY <2>2, <2>3, <2>5, HashOK
  <2> HIDE DEF u
  <2> HIDE DEF h
  <2>7. n \in Run /\ n.at = "poll" /\ n.hash = h /\ n.kind = run[r].kind
    BY <2>1, <2>2 DEF Run
  <2> HIDE DEF n
  <2>8. RunOK(r, n, sent', blind')
    BY <1>2, <2>1, <2>2, <2>7 DEF RunOK, Polling, NothingOut
  <2> QED
    BY <1>1, <1>2, <2>1, <2>2, <2>4, <2>6, <2>8, StepKeeps
<1>5. CASE Returns(r) /\ blind' = blind
  BY <1>1, <1>5, ReturnsStep
<1>6. ASSUME ~hasPollStatus, Reached(r), Confirmed(r, Len(sent'), "object"), blind' = blind
      PROVE  SInv'
  <2> DEFINE h == Len(sent')
  <2>1. /\ Sends(r) /\ h \in Nat /\ h # 0 /\ h \in DOMAIN sent'
        /\ LiveIn(sent', r) \subseteq LiveIn(sent, r) \cup {h}
    BY <1>6, SendsOne DEF Reached
  <2>2. /\ run[r].at # "none" /\ run[r].at # "over"
        /\ r \notin blind => LiveIn(sent, r) = {}
    BY <1>1, AtStage
  <2>3. h \in 0..Len(sent')
    BY <2>1
  <2>4. r \notin blind => \A i, j \in LiveIn(sent', r) : i = j
    BY <2>1, <2>2
  <2> HIDE DEF h
  <2> QED
    BY <1>1, <1>6, <2>1, <2>2, <2>3, <2>4, ConfirmKeeps
<1>3. CASE Reached(r) /\ LosesSight(r) /\ Caught(r, FALSE)
  BY <1>1, <1>3, LostKeeps
<1>4. ASSUME NEW terminal \in BOOLEAN, Caught(r, terminal), UNCHANGED <<sent, blind>>
      PROVE  SInv'
  <2>1. Silent
    BY <1>1, <1>4 DEF Silent
  <2> QED
    BY <1>1, <1>4, <2>1, StageCaught
<1> QED
  BY <1>2, <1>3, <1>4, <1>5, <1>6 DEF Sent, isTerminalTransactionError

\* What the invariant says of a run that polls.
LEMMA AtPoll ==
    ASSUME SInv, NEW r \in 1..MaxCalls, run[r].at \in Polling
    PROVE  /\ run[r] \in Run /\ run[r].at # "none" /\ run[r].at # "over"
           /\ run[r].hash \in DOMAIN sent /\ run[r].hash \in 0..Len(sent) /\ run[r].hash # 0
           /\ r \notin blind => LiveIn(sent, r) \subseteq {run[r].hash}
           /\ r \notin blind => \A i, j \in LiveIn(sent, r) : i = j
           /\ (r \notin blind /\ run[r].kind = "refetch") => LiveIn(sent, r) = {}
           /\ Current(r) => ui.status # "confirmed"
           /\ sent \in Seq(TxRecord) /\ ui \in Shown /\ UiOK(ui, sent, ledgerPoll, last)
<1>1. RunOK(r, run[r], sent, blind) /\ UiOK(ui, sent, ledgerPoll, last) /\ sent \in Seq(TxRecord)
  BY DEF SInv
<1>2. Current(r) => ui.status # "confirmed"
  BY DEF SInv, Current, Polling
<1>3. run[r].hash \in DOMAIN sent /\ DOMAIN sent = 1..Len(sent)
  BY <1>1 DEF RunOK
<1> QED
  BY <1>1, <1>2, <1>3 DEF RunOK, UiOK, Polling

\* Polling goes on for the same hash.
LEMMA PollsOn ==
    ASSUME SInv, NEW r \in 1..MaxCalls, run[r].at \in Polling, NEW y \in Polling,
           NEW p \in 0..(MaxPolls - 1), NEW n, n = [run[r] EXCEPT !.at = y, !.polls = p],
           Step(r, n, ui), Silent
    PROVE  SInv'
<1>1. /\ run[r] \in Run /\ run[r].at # "none" /\ run[r].at # "over"
      /\ RunOK(r, run[r], sent, blind)
  BY AtPoll DEF SInv
<1>2. Sends(r) /\ sent' = sent /\ blind' = blind
      /\ UNCHANGED <<ledgerPoll, mounted, runId, last, calls>>
  BY DEF Sends, Silent
<1>3. n \in Run /\ n.at = y /\ n.kind = run[r].kind /\ n.hash = run[r].hash
  BY <1>1 DEF Run, Polling
<1>4. RunOK(r, n, sent', blind')
  BY <1>1, <1>2, <1>3 DEF RunOK, Polling, NothingOut
<1> QED
  BY <1>1, <1>2, <1>4, StepKeeps

\* Polled: the answers to one request.
LEMMA PolledStep ==
    ASSUME SInv, NEW r \in 1..MaxCalls, Polled(r)
    PROVE  SInv'
<1>1. run[r].at = "poll" /\ UNCHANGED <<ledgerPoll, mounted, runId, last, sent, calls>>
  BY DEF Polled
<1>2. /\ run[r] \in Run /\ run[r].at # "none" /\ run[r].at # "over"
      /\ run[r].hash \in DOMAIN sent /\ run[r].hash \in 0..Len(sent) /\ run[r].hash # 0
      /\ r \notin blind => LiveIn(sent, r) \subseteq {run[r].hash}
      /\ r \notin blind => \A i, j \in LiveIn(sent, r) : i = j
  BY <1>1, AtPoll DEF Polling
<1>3. Sends(r) /\ sent' = sent /\ UNCHANGED <<ledgerPoll, mounted, runId, last, calls>>
  BY <1>1 DEF Sends
<1>4. ASSUME Step(r, Over, ui), blind' = blind
      PROVE  SInv'
  <2>1. RunOK(r, Over, sent', blind')
    BY <1>2, <1>3, <1>4, OverOK
  <2> QED
    BY <1>2, <1>3, <1>4, <2>1, StepKeeps
<1>5. ASSUME NEW by \in {"answer", "noPoller"}, by = "answer" => pollAnswer(r) = "success",
             by = "noPoller" => ~canPoll, Confirmed(r, run[r].hash, by), blind' = blind
      PROVE  SInv'
  <2> DEFINE h == run[r].hash
  <2>1. /\ h \in DOMAIN sent' /\ h \in 0..Len(sent') /\ h # 0
        /\ sent'[h].state = "success" \/ (by = "noPoller" /\ ~canPoll)
        /\ r \notin blind => \A i, j \in LiveIn(sent', r) : i = j
        /\ Confirmed(r, h, by)
    BY <1>2, <1>3, <1>5 DEF pollAnswer
  <2> HIDE DEF h
  <2> QED
    BY <1>2, <1>3, <1>5, <2>1, ConfirmKeeps
<1>6. ASSUME pollAnswer(r) = "failed", Caught(r, run[r].kind = "refetch"), blind' = blind
      PROVE  SInv'
  <2> DEFINE terminal == run[r].kind = "refetch"
  <2>1. r \notin blind => LiveIn(sent, r) = {}
    BY <1>2, <1>6 DEF LiveIn, pollAnswer
  <2>2. /\ terminal \in BOOLEAN /\ ~terminal => run[r].kind # "refetch"
        /\ r \notin blind' => LiveIn(sent', r) = {}
        /\ r \notin blind' => \A i, j \in LiveIn(sent', r) : i = j
    BY <1>3, <1>6, <2>1
  <2>3. Caught(r, terminal)
    BY <1>6
  <2> HIDE DEF terminal
  <2> QED
    BY <1>2, <1>3, <1>6, <2>2, <2>3, CaughtKeeps
<1>7. ASSUME GiveUp(r) PROVE SInv'
  <2> DEFINE terminal == run[r].kind = "refetch"
  <2>1. terminal \in BOOLEAN /\ (~terminal => run[r].kind # "refetch")
    OBVIOUS
  <2>2. Caught(r, terminal) /\ blind' = blind \cup {r} /\ r \in blind'
    BY <1>7 DEF GiveUp, LosesSight
  <2> HIDE DEF terminal
  <2> QED
    BY <1>2, <1>3, <2>1, <2>2, CaughtKeeps
<1>8. ASSUME run[r].polls + 1 # MaxPolls, blind' = blind,
             Step(r, [run[r] EXCEPT !.at = "pollwait", !.polls = @ + 1], ui)
      PROVE  SInv'
  <2> DEFINE p == run[r].polls + 1
             n == [run[r] EXCEPT !.at = "pollwait", !.polls = p]
  <2>1. p \in 0..(MaxPolls - 1)
    BY <1>2, <1>8, BoundsAssumption, RunFields
  <2>2. Step(r, n, ui)
    BY <1>8
  <2>3. n = [run[r] EXCEPT !.at = "pollwait", !.polls = p]
    OBVIOUS
  <2>4. Silent
    BY <1>1, <1>8 DEF Silent
  <2>5. run[r].at \in Polling /\ "pollwait" \in Polling
    BY <1>1 DEF Polling
  <2> HIDE DEF p, n
  <2> QED
    BY <2>1, <2>2, <2>3, <2>4, <2>5, PollsOn
<1> QED
  BY <1>4, <1>5, <1>6, <1>7, <1>8 DEF Polled

\* PollTimer: the next request.
LEMMA PollTimerStep ==
    ASSUME SInv, NEW r \in 1..MaxCalls, PollTimer(r)
    PROVE  SInv'
<1> DEFINE p == run[r].polls
           n == [run[r] EXCEPT !.at = "poll", !.polls = p]
<1>1. run[r].at \in Polling /\ "poll" \in Polling /\ Silent
  BY DEF PollTimer, Polling, Silent
<1>2. run[r] \in Run /\ p \in 0..(MaxPolls - 1)
  BY <1>1, AtPoll, RunFields
<1>3. n = [run[r] EXCEPT !.at = "poll"]
  BY <1>2 DEF Run
<1>4. Step(r, n, ui)
  BY <1>3 DEF PollTimer
<1>5. n = [run[r] EXCEPT !.at = "poll", !.polls = p]
  OBVIOUS
<1> HIDE DEF p, n
<1> QED
  BY <1>1, <1>2, <1>4, <1>5, PollsOn

\* Settled: a whole action returns.
LEMMA SettledStep ==
    ASSUME SInv, NEW r \in 1..MaxCalls, Settled(r)
    PROVE  SInv'
<1>1. run[r].at = "simulate" /\ UNCHANGED <<ledgerPoll, mounted, runId, last, calls>>
  BY DEF Settled
<1>2. CASE Returns(r) /\ blind' = blind
  BY <1>1, <1>2, ReturnsStep
<1>5. CASE Reached(r) /\ LosesSight(r) /\ Caught(r, FALSE)
  BY <1>1, <1>5, LostKeeps
<1>6. ASSUME NEW terminal \in BOOLEAN, Caught(r, terminal), UNCHANGED <<sent, blind>>
      PROVE  SInv'
  <2>1. Silent
    BY <1>1, <1>6 DEF Silent
  <2> QED
    BY <1>1, <1>6, <2>1, StageCaught
<1> QED
  BY <1>2, <1>5, <1>6 DEF Settled, isTerminalTransactionError

----------------------------------------------------------------------------
(* The network, and the calls *)

\* LedgerCloses: what was pending is decided; nothing becomes live.
LEMMA LedgerClosesStep ==
    ASSUME SInv, NEW h \in DOMAIN sent, LedgerCloses(h)
    PROVE  SInv'
<1>1. sent \in Seq(TxRecord) /\ sent[h].state = "pending"
      /\ UNCHANGED <<ledgerPoll, ui, mounted, runId, last, run, blind, calls>>
  BY DEF SInv, LedgerCloses
<1>2. PICK s \in {"success", "failed"} : sent' = [sent EXCEPT ![h].state = s]
  BY DEF LedgerCloses
<1> DEFINE e == [sent[h] EXCEPT !.state = s]
<1>3. e \in TxRecord /\ e.run = sent[h].run /\ e.state = s
  <2> DEFINE d == sent[h]
  <2>1. d \in TxRecord
    BY <1>1
  <2> HIDE DEF d
  <2>2. [d EXCEPT !.state = s] \in TxRecord /\ [d EXCEPT !.state = s].run = d.run
        /\ [d EXCEPT !.state = s].state = s
    BY <2>1 DEF TxRecord
  <2> QED
    BY <2>2 DEF d
<1>4. sent' = [sent EXCEPT ![h] = e]
  BY <1>2
<1> HIDE DEF e
<1>5. /\ sent' \in Seq(TxRecord) /\ Len(sent') = Len(sent) /\ DOMAIN sent' = DOMAIN sent
      /\ DOMAIN sent = 1..Len(sent) /\ Len(sent) \in Nat
  BY <1>1, <1>3, <1>4
<1>6. \A i \in DOMAIN sent : sent'[i].run = sent[i].run
                             /\ (i # h => sent'[i] = sent[i])
  BY <1>3, <1>4
<1>7. ASSUME NEW q PROVE LiveIn(sent', q) \subseteq LiveIn(sent, q)
  BY <1>1, <1>5, <1>6 DEF LiveIn
<1>8. ASSUME NEW q \in 1..MaxCalls PROVE RunOK(q, run[q], sent', blind)
  <2>1. RunOK(q, run[q], sent, blind)
    BY DEF SInv
  <2>2. LiveIn(sent', q) \subseteq LiveIn(sent, q)
    BY <1>7
  <2> QED
    BY <1>5, <2>1, <2>2 DEF RunOK
<1>9. UiOK(ui, sent', ledgerPoll, last)
  <2>1. UiOK(ui, sent, ledgerPoll, last)
    BY DEF SInv
  <2>2. ui.data \in 0..Len(sent) /\ (ui.data # 0 => ui.data \in DOMAIN sent)
    BY <1>5, <2>1 DEF UiOK
  <2> QED
    BY <1>1, <1>5, <1>6, <2>1, <2>2 DEF UiOK, NoHash
<1> QED
  BY <1>1, <1>5, <1>8, <1>9 DEF SInv

\* What a call may do to the runs: a sleeping one ends, the others go on, and
\* the call's own run starts at n or not at all
Starts(n) ==
    \A q \in 1..MaxCalls :
        \/ q = runId + 1 /\ run'[q] = n
        \/ run'[q] = run[q] /\ q # runId + 1
        \/ run'[q] = Over /\ run[q].at \in {"wait", "pollwait"} /\ q # runId + 1

\* A call takes the next number.
LEMMA CallKeeps ==
    ASSUME SInv, NEW n, Starts(n), calls > 0, calls' = calls - 1, runId' = runId + 1,
           run' \in [1..MaxCalls -> Run], n \in Run, n.kind # "refetch" \/ n.at \in Polling,
           n.at # "wait", n.at \in Polling => n.hash \in DOMAIN sent /\ n.kind = "refetch",
           UNCHANGED <<ledgerPoll, sent, blind>>,
           last' \in {"none", "staged", "polled", "whole"}, mounted' \in BOOLEAN,
           UiOK(ui', sent, ledgerPoll, last'), ui'.status = "confirmed" => ~mounted'
    PROVE  SInv'
<1>1. runId \in Nat /\ calls \in Nat /\ MaxCalls \in Nat /\ runId + calls <= MaxCalls
  BY BoundsAssumption DEF SInv
<1>2. runId' \in Nat /\ calls' \in Nat /\ runId' + calls' <= MaxCalls /\ runId' \in 1..MaxCalls
  BY <1>1
<1>3. ASSUME NEW q \in 1..MaxCalls
      PROVE  RunOK(q, run'[q], sent, blind) /\ (q > runId' => run'[q] = NoRun)
  <2>1. RunOK(q, run[q], sent, blind) /\ (q > runId => run[q] = NoRun)
    BY DEF SInv
  <2>2. CASE q = runId + 1 /\ run'[q] = n
    <3>1. run[q] = NoRun
      BY <1>1, <2>1, <2>2
    <3>2. q \notin blind => LiveIn(sent, q) = {}
      BY <2>1, <3>1 DEF RunOK, NoRun, NothingOut
    <3>3. RunOK(q, n, sent, blind)
      BY <3>2 DEF RunOK
    <3> QED
      BY <1>1, <2>2, <3>3
  <2>3. CASE run'[q] = run[q] /\ q # runId + 1
    BY <1>1, <2>1, <2>3
  <2>4. CASE run'[q] = Over /\ run[q].at \in {"wait", "pollwait"} /\ q # runId + 1
    <3>1. q \notin blind => \A i, j \in LiveIn(sent, q) : i = j
      BY <2>1 DEF RunOK
    <3>2. RunOK(q, Over, sent, blind)
      BY <3>1, OverOK
    <3>3. ~(q > runId)
      BY <2>1, <2>4 DEF NoRun
    <3> QED
      BY <1>1, <2>4, <3>2, <3>3
  <2> QED
    BY <2>2, <2>3, <2>4 DEF Starts
<1>4. ledgerPoll' \in BOOLEAN /\ sent' \in Seq(TxRecord) /\ blind' \subseteq 1..MaxCalls
  BY DEF SInv
<1> QED
  BY <1>2, <1>3, <1>4 DEF SInv

\* clearAllTimers ends the sleeping runs and leaves the others alone; a number
\* not yet taken has no run.
LEMMA ClearedRuns ==
    ASSUME SInv, calls > 0
    PROVE  /\ clearAllTimers(run) \in [1..MaxCalls -> Run]
           /\ runId + 1 \in 1..MaxCalls /\ run[runId + 1] = NoRun
           /\ clearAllTimers(run)[runId + 1] = NoRun
           /\ \A q \in 1..MaxCalls :
                 \/ clearAllTimers(run)[q] = run[q]
                 \/ clearAllTimers(run)[q] = Over /\ run[q].at \in {"wait", "pollwait"}
           /\ NoRun \in Run /\ Over \in Run
<1>1. runId \in Nat /\ calls \in Nat /\ MaxCalls \in Nat /\ runId + calls <= MaxCalls
  BY BoundsAssumption DEF SInv
<1>2. TotalAllowedAttempts \in Nat /\ MaxPolls - 1 \in Nat
  BY BoundsAssumption DEF TotalAllowedAttempts
<1>3. NoRun \in Run /\ Over \in Run
  BY <1>2 DEF NoRun, Over, Run, NoHash
<1>4. run \in [1..MaxCalls -> Run]
  BY DEF SInv
<1>5. runId + 1 \in 1..MaxCalls
  BY <1>1
<1>6. run[runId + 1] = NoRun
  BY <1>1, <1>5 DEF SInv
<1> QED
  BY <1>3, <1>4, <1>5, <1>6 DEF clearAllTimers, NoRun

\* submit, reset and unmount.
LEMMA FreshCallKeeps ==
    ASSUME SInv, NEW n \in Run, n.kind # "refetch", n.at \in {"none", "simulate"},
           run' = [clearAllTimers(run) EXCEPT ![runId + 1] = n],
           calls > 0, calls' = calls - 1, runId' = runId + 1,
           UNCHANGED <<ledgerPoll, sent, blind>>,
           last' \in {"none", "staged", "polled", "whole"}, mounted' \in BOOLEAN,
           UiOK(ui', sent, ledgerPoll, last'), ui'.status = "confirmed" => ~mounted'
    PROVE  SInv'
<1> DEFINE C == clearAllTimers(run)
<1>1. /\ C \in [1..MaxCalls -> Run] /\ runId + 1 \in 1..MaxCalls
      /\ \A q \in 1..MaxCalls : \/ C[q] = run[q]
                                \/ C[q] = Over /\ run[q].at \in {"wait", "pollwait"}
  BY ClearedRuns
<1>2. run' = [C EXCEPT ![runId + 1] = n]
  OBVIOUS
<1> HIDE DEF C
<1>3. run' \in [1..MaxCalls -> Run] /\ Starts(n)
  BY <1>1, <1>2 DEF Starts
<1>4. n.at # "wait" /\ n.at \notin Polling
  BY DEF Polling
<1> QED
  BY <1>3, <1>4, CallKeeps

\* The idle state, and the states a call shows at once.
LEMMA IdleOK ==
    ASSUME NEW S, NEW lp, NEW la, Len(S) \in Nat
    PROVE  /\ UiOK(Idle, S, lp, la) /\ Idle.status # "confirmed"
           /\ UiOK([Idle EXCEPT !.status = "simulating"], S, lp, la)
           /\ [Idle EXCEPT !.status = "simulating"].status # "confirmed"
           /\ UiOK([Idle EXCEPT !.status = "failed", !.error = TRUE], S, lp, la)
           /\ [Idle EXCEPT !.status = "failed", !.error = TRUE].status # "confirmed"
<1>1. 0 \in 0..Retries /\ 0 \in 0..Len(S)
  BY BoundsAssumption
<1> QED
  BY <1>1 DEF UiOK, Idle, NoHash, Shown

\* The calls, submit and retry with the wallet in any state.
LEMMA CallSteps ==
    ASSUME SInv, NEW w, SubmitCalls(w)
    PROVE  SInv'
<1>1. /\ sent \in Seq(TxRecord) /\ Len(sent) \in Nat /\ UiOK(ui, sent, ledgerPoll, last)
      /\ last \in {"none", "staged", "polled", "whole"} /\ mounted \in BOOLEAN
  BY DEF SInv
<1>2. calls > 0 => /\ clearAllTimers(run)[runId + 1] = NoRun /\ NoRun \in Run
                   /\ clearAllTimers(run) \in [1..MaxCalls -> Run]
                   /\ runId + 1 \in 1..MaxCalls /\ run[runId + 1] = NoRun
  BY ClearedRuns
<1>3. calls > 0 => clearAllTimers(run) = [clearAllTimers(run) EXCEPT ![runId + 1] = NoRun]
  BY <1>2
<1>4. NoRun.kind # "refetch" /\ NoRun.at = "none"
  BY DEF NoRun
<1>5. ASSUME NEW kind \in {"staged", "polled", "whole"}, submit(kind, w) PROVE SInv'
  <2>1. /\ calls > 0 /\ calls' = calls - 1 /\ runId' = runId + 1 /\ last' = kind
        /\ UNCHANGED <<ledgerPoll, mounted, sent, blind>>
    BY <1>5 DEF submit, Call
  <2>2. CASE w = "connected"
    <3> DEFINE n == [NoRun EXCEPT !.at = "simulate", !.kind = kind, !.attempt = 1]
    <3>1. 0 \in 0..(MaxPolls - 1) /\ 1 \in 0..TotalAllowedAttempts
      BY BoundsAssumption DEF TotalAllowedAttempts
    <3>2. n \in Run /\ n.kind # "refetch" /\ n.at = "simulate"
      BY <3>1 DEF NoRun, NoHash, Run
    <3>3. run' = [clearAllTimers(run) EXCEPT ![runId + 1] = n]
      BY <1>5, <2>2 DEF submit
    <3> DEFINE u == [Idle EXCEPT !.status = "simulating"]
    <3>5. UiOK(u, sent, ledgerPoll, kind) /\ u.status # "confirmed"
      BY <1>1, IdleOK
    <3>6. ui' = u
      BY <1>5, <2>2 DEF submit
    <3> HIDE DEF u
    <3>4. UiOK(ui', sent, ledgerPoll, last') /\ ui'.status # "confirmed"
      BY <2>1, <3>5, <3>6
    <3> HIDE DEF n
    <3> QED
      BY <1>1, <2>1, <3>2, <3>3, <3>4, FreshCallKeeps
  <2>3. CASE w # "connected"
    <3>1. run' = [clearAllTimers(run) EXCEPT ![runId + 1] = NoRun]
      BY <1>3, <1>5, <2>1, <2>3 DEF submit
    <3> DEFINE u == [Idle EXCEPT !.status = "failed", !.error = TRUE]
    <3>3. UiOK(u, sent, ledgerPoll, kind) /\ u.status # "confirmed"
      BY <1>1, IdleOK
    <3>4. ui' = u
      BY <1>5, <2>3 DEF submit
    <3> HIDE DEF u
    <3>2. UiOK(ui', sent, ledgerPoll, last') /\ ui'.status # "confirmed"
      BY <2>1, <3>3, <3>4
    <3> QED
      BY <1>1, <1>2, <1>4, <2>1, <3>1, <3>2, FreshCallKeeps
  <2> QED
    BY <2>2, <2>3
<1>6. CASE retry(w)
  <2>1. CASE last = "none"
    <3>1. /\ calls > 0 /\ calls' = calls - 1
          /\ ui' = [ui EXCEPT !.status = "failed", !.error = TRUE]
          /\ UNCHANGED <<ledgerPoll, mounted, runId, last, run, sent, blind>>
      BY <1>6, <2>1 DEF retry, Call
    <3>2. UiOK(ui', sent, ledgerPoll, last') /\ ui'.status # "confirmed"
      BY <1>1, <3>1, StatusOK
    <3>3. calls' \in Nat /\ runId + calls' <= MaxCalls
      BY <3>1, BoundsAssumption DEF SInv
    <3> QED
      BY <3>1, <3>2, <3>3 DEF SInv
  <2>2. CASE last # "none"
    BY <1>1, <1>5, <1>6, <2>2 DEF retry
  <2> QED
    BY <2>1, <2>2
<1>7. CASE refetch
  <2> DEFINE n == [at |-> "poll", kind |-> "refetch", attempt |-> 1, hash |-> ui.hash, polls |-> 0]
  <2>1. /\ calls > 0 /\ calls' = calls - 1 /\ runId' = runId + 1 /\ ui.hash # 0
        /\ run' = [run EXCEPT ![runId + 1] = n]
        /\ ui' = [ui EXCEPT !.status = "submitting"]
        /\ UNCHANGED <<ledgerPoll, mounted, last, sent, blind>>
    BY <1>7 DEF refetch, Call, NoHash
  <2>2. 0 \in 0..(MaxPolls - 1) /\ 1 \in 0..TotalAllowedAttempts
    BY BoundsAssumption DEF TotalAllowedAttempts
  <2>3. ui.hash \in Nat /\ ui.hash \in DOMAIN sent
    BY <1>1, <2>1 DEF UiOK
  <2>4. n \in Run /\ n.at = "poll" /\ n.kind = "refetch" /\ n.hash = ui.hash
    BY <2>2, <2>3 DEF Run
  <2> HIDE DEF n
  <2>5. run' \in [1..MaxCalls -> Run] /\ Starts(n)
    BY <1>2, <2>1, <2>4 DEF Starts, SInv
  <2>6. UiOK(ui', sent, ledgerPoll, last') /\ ui'.status # "confirmed"
    BY <1>1, <2>1, StatusOK
  <2>7. n.at \in Polling /\ n.at # "wait" /\ n.hash \in DOMAIN sent
    BY <2>3, <2>4 DEF Polling
  <2> QED
    BY <1>1, <2>1, <2>4, <2>5, <2>6, <2>7, CallKeeps
<1>8. CASE reset
  <2>1. /\ calls > 0 /\ calls' = calls - 1 /\ runId' = runId + 1 /\ ui' = Idle
        /\ UNCHANGED <<ledgerPoll, mounted, last, sent, blind>>
        /\ run' = clearAllTimers(run)
    BY <1>8 DEF reset, Call
  <2>2. UiOK(ui', sent, ledgerPoll, last') /\ ui'.status # "confirmed"
    BY <1>1, <2>1, IdleOK
  <2>3. run' = [clearAllTimers(run) EXCEPT ![runId + 1] = NoRun]
    BY <1>3, <2>1
  <2> QED
    BY <1>1, <1>2, <1>4, <2>1, <2>2, <2>3, FreshCallKeeps
<1>9. CASE unmount
  <2>1. /\ calls > 0 /\ calls' = calls - 1 /\ runId' = runId + 1 /\ mounted' = FALSE
        /\ UNCHANGED <<ledgerPoll, ui, last, sent, blind>>
        /\ run' = clearAllTimers(run)
    BY <1>9 DEF unmount, Call
  <2>2. UiOK(ui', sent, ledgerPoll, last')
    BY <1>1, <2>1
  <2>3. run' = [clearAllTimers(run) EXCEPT ![runId + 1] = NoRun]
    BY <1>3, <2>1
  <2> QED
    BY <1>1, <1>2, <1>4, <2>1, <2>2, <2>3, FreshCallKeeps
<1> QED
  BY <1>5, <1>6, <1>7, <1>8, <1>9 DEF SubmitCalls

----------------------------------------------------------------------------
(* The wallet: the invariant, in parts *)

CoreType ==
    /\ nets \in Seq(Networks) /\ gen \in 1..MaxClients
    /\ signer \in [1..MaxClients -> 0..MaxAttempts]
    /\ attempt \in 0..MaxAttempts /\ active \in 0..MaxAttempts
    /\ task \in [1..MaxAttempts -> Task]
    /\ adapter \in [1..MaxAttempts -> Adapter]
    /\ \A a \in 1..MaxAttempts : a > attempt => task[a] = NoTask
    /\ machine \in Machine
    /\ quit \in BOOLEAN
    /\ crossed \subseteq {"probe", "client", "script"}

SideType ==
    /\ env \in Pages
    /\ chosen \in Networks \union {NONE}
    /\ session \in AllSessions \union {NONE}
    /\ script \in {"absent", "loading", "ready", "failed"}
    /\ restoring \in BOOLEAN /\ due \in BOOLEAN /\ watched \in BOOLEAN
    /\ extension \in BOOLEAN
    /\ available \in [freighter : BOOLEAN, albedo : BOOLEAN, loadFailed : BOOLEAN]
    /\ waiting \in Seq(1..gen)
    /\ events \in Nat
    /\ attempt + Len(waiting) + (IF due THEN 1 ELSE 0) + events <= MaxAttempts
    /\ gen + events <= MaxClients

SignersEnded ==
    /\ \A g \in 1..MaxClients : g > gen => signer[g] = 0
    /\ \A g \in 1..MaxClients : signer[g] # 0 => task[signer[g]].at = "ended"

\* usableNow, of a state given by its two parts
Usable(w, x, s) == IF w = "freighter" THEN x ELSE s = "ready"

CallsGoOn ==
    \A a \in 1..MaxAttempts : task[a].at \in {"connect", "probe"} =>
          /\ task[a].gen \in 1..gen /\ task[a].wallet \in WALLET_NAMES
          /\ task[a].usable => Usable(task[a].wallet, extension, script)

ProbesHold ==
    \A a \in 1..MaxAttempts : task[a].at = "probe" =>
          /\ task[a].usable
          /\ adapter[a].connected => adapter[a].net \in {NONE, nets[task[a].gen]}
          /\ a = attempt => adapter[a].connected /\ adapter[a].key

SignerShows ==
    (signer[gen] # 0 /\ crossed \intersect {"probe", "client"} = {}) =>
          /\ machine.status = "connected" /\ machine.adapter = signer[gen]
          /\ adapter[signer[gen]].connected /\ adapter[signer[gen]].key

Lists(w, v) == IF w = "freighter" THEN v.freighter ELSE v.albedo

ShownIsListed ==
    (env.restore /\ machine.status = "connected") =>
          Usable(machine.wallet, extension, script) /\ Lists(machine.wallet, available)

NoLateCall ==
    (quit /\ "script" \notin crossed) =>
        attempt # 0 /\ task[attempt].at \notin {"connect", "probe"}

QuitHolds ==
    (quit /\ crossed \intersect {"probe", "script"} = {}) =>
        machine.status = "disconnected" /\ signer[gen] = 0 /\ session = NONE

Core == CoreType /\ SignersEnded /\ CallsGoOn /\ ProbesHold /\ SignerShows
        /\ SignersOnTheirNetwork /\ NoLateCall

WInv == Core /\ SideType /\ ShownIsListed /\ QuitHolds

\* The wallet's properties are this invariant, and what the page shows follows.
LEMMA WInvIs ==
    /\ WInv => WalletTypeOK /\ CallsKnowTheirClient /\ SignersOnTheirNetwork
               /\ ConnectedIsListed /\ DisconnectHolds
    /\ WInv => NoHiddenSigner
<1>0. /\ \A w : usableNow(w) = Usable(w, extension, script)
      /\ \A w : listedNow(w) = Lists(w, available)
  BY DEF usableNow, Usable, listedNow, Lists, isFreighterInstalled, isAlbedoAvailable
<1>1. WInv => WalletTypeOK
  BY DEF WInv, Core, CoreType, SideType, WalletTypeOK
<1>2. WInv => CallsKnowTheirClient
  BY <1>0 DEF WInv, Core, SignersEnded, CallsGoOn, ProbesHold, SignerShows, ShownIsListed,
         CallsKnowTheirClient, UnderWay
<1>3. WInv => ConnectedIsListed
  BY <1>0 DEF WInv, ShownIsListed, ConnectedIsListed
<1>4. WInv => NoHiddenSigner
  <2> SUFFICES ASSUME WInv, signer[gen] # 0,
                       crossed \intersect {"probe", "client"} = {}
               PROVE  useWallet = "connected"
    BY DEF NoHiddenSigner
  <2> DEFINE s == signer[gen]
  <2>1. /\ machine.status = "connected" /\ machine.adapter = s /\ s # 0
        /\ adapter[s].connected /\ adapter[s].key
    BY DEF WInv, Core, SignerShows
  <2>2. gen \in 1..gen
    BY DEF WInv, Core, CoreType
  <2>3. adapter[s].net \in {NONE, nets[gen]}
    BY <2>1, <2>2 DEF WInv, Core, SignersOnTheirNetwork
  <2> HIDE DEF s
  <2> QED
    BY <2>1, <2>3 DEF useWallet
<1>5. WInv => DisconnectHolds
  BY DEF WInv, Core, NoLateCall, QuitHolds, DisconnectHolds, UnderWay
<1> QED
  BY <1>1, <1>2, <1>3, <1>4, <1>5 DEF WInv, Core

\* The reducer's answers.
LEMMA Reduced ==
    ASSUME NEW w, NEW a
    PROVE  /\ walletReducer("disconnected", w, a) = disconnectedState
           /\ walletReducer("connecting", w, a) =
                 [status |-> "connecting", adapter |-> 0, wallet |-> w]
           /\ \A y \in {"connected", "wrong-network", "error"} :
                 walletReducer(y, w, a) = [status |-> y, adapter |-> a, wallet |-> w]
BY DEF walletReducer

\* A wallet found usable stays usable
UsableGrows == (extension => extension') /\ (script = "ready" => script' = "ready")

----------------------------------------------------------------------------
(* The wallet: what a call does to the core *)

\* connect: the new number has no task yet, and the client it is for no signer.
LEMMA ConnectCore ==
    ASSUME Core, extension \in BOOLEAN, NEW w \in WALLET_NAMES, NEW g \in 1..gen,
           NEW via \in {"connect", "connectWallet", "restore"}, 
           NEW asked \in BOOLEAN, connect(w, g, via, asked),
           attempt < MaxAttempts, UNCHANGED <<nets, adapter>>, UsableGrows
    PROVE  /\ Core' /\ machine'.status = "connecting" /\ attempt' = attempt + 1
           /\ quit' => "script" \in crossed'
<1> DEFINE k == attempt + 1
           e == [at |-> "connect", wallet |-> w, gen |-> g, via |-> via, usable |-> usableNow(w)]
           m == [status |-> "connecting", adapter |-> 0, wallet |-> w]
<1>1. /\ CoreType /\ MaxAttempts \in Nat /\ MaxClients \in Nat
      /\ gen' = gen /\ k \in 1..MaxAttempts /\ g \in 1..MaxClients
  BY EventsAssumption DEF Core, CoreType, MaxAttempts, MaxClients, gen
<1>2. /\ attempt' = k /\ active' = k /\ signer' = [signer EXCEPT ![g] = 0]
      /\ machine' = m /\ task' = [task EXCEPT ![k] = e]
  BY Reduced DEF connect
<1>17. /\ quit' \in BOOLEAN /\ crossed' \subseteq {"probe", "client", "script"}
       /\ quit' => "script" \in crossed'
       /\ g # gen => "client" \in crossed'
  BY <1>1 DEF connect, CoreType
<1>3. usableNow(w) \in BOOLEAN
  BY DEF usableNow, isFreighterInstalled, isAlbedoAvailable
<1>4. e \in Task /\ e.at = "connect" /\ e.gen = g /\ e.wallet = w
  BY <1>1, <1>3 DEF Task
<1>16. e.usable => usableNow(w)
  OBVIOUS
<1>5. m \in Machine /\ m.status = "connecting"
  BY <1>1 DEF Machine
<1> HIDE DEF e, m, k
<1>6. /\ task' \in [1..MaxAttempts -> Task] /\ task'[k] = e
      /\ \A a \in 1..MaxAttempts : a # k => task'[a] = task[a]
  BY <1>1, <1>2, <1>4 DEF CoreType
<1>7. k = attempt + 1 /\ attempt \in Nat /\ task[k] = NoTask
  BY <1>1 DEF CoreType, k
<1>8. /\ signer' \in [1..MaxClients -> 0..MaxAttempts]
      /\ signer'[g] = 0 /\ \A h \in 1..MaxClients : h # g => signer'[h] = signer[h]
  BY <1>1, <1>2 DEF CoreType
<1>9. CoreType'
  <2>1. \A a \in 1..MaxAttempts : a > k => task'[a] = NoTask
    BY <1>1, <1>6, <1>7 DEF CoreType
  <2>2. attempt' \in 0..MaxAttempts /\ active' \in 0..MaxAttempts
    BY <1>1, <1>2
  <2>3. crossed' \subseteq {"probe", "client", "script"} /\ quit' \in BOOLEAN
        /\ machine' \in Machine
    BY <1>2, <1>5, <1>17
  <2> QED
    BY <1>1, <1>2, <1>6, <1>8, <2>1, <2>2, <2>3 DEF CoreType
<1>10. SignersEnded'
  <2>1. \A h \in 1..MaxClients : signer[h] # k
    BY <1>7 DEF Core, SignersEnded, NoTask
  <2>2. ASSUME NEW h \in 1..MaxClients, signer'[h] # 0
        PROVE  task'[signer'[h]].at = "ended" /\ h <= gen
    <3>1. h # g /\ signer'[h] = signer[h] /\ signer[h] \in 1..MaxAttempts
      BY <1>1, <1>8, <2>2 DEF CoreType
    <3>2. task[signer[h]].at = "ended" /\ ~(h > gen)
      BY <2>2, <3>1 DEF Core, SignersEnded
    <3>3. task'[signer[h]] = task[signer[h]]
      BY <1>6, <2>1, <3>1
    <3> QED
      BY <1>1, <3>1, <3>2, <3>3 DEF CoreType
  <2> QED
    BY <1>1, <2>2 DEF SignersEnded, CoreType
<1>11. CallsGoOn'
  <2>1. \A x : Usable(x, extension, script) => Usable(x, extension', script')
    BY DEF UsableGrows, Usable
  <2>2. ASSUME NEW a \in 1..MaxAttempts, task'[a].at \in {"connect", "probe"}
        PROVE  /\ task'[a].gen \in 1..gen /\ task'[a].wallet \in WALLET_NAMES
               /\ task'[a].usable => Usable(task'[a].wallet, extension', script')
    <3>1. CASE a = k
      <4>1. usableNow(w) => Usable(w, extension, script)
        BY DEF usableNow, Usable, isFreighterInstalled, isAlbedoAvailable
      <4>2. task'[a] = e /\ e.gen = g /\ e.wallet = w
        BY <1>4, <1>6, <3>1
      <4>3. e.usable => usableNow(w)
        BY <1>16
      <4>4. e.usable => Usable(w, extension', script')
        BY <2>1, <4>1, <4>3
      <4> QED
        BY <4>2, <4>4
    <3>2. CASE a # k
      BY <1>6, <2>1, <2>2, <3>2 DEF Core, CallsGoOn
    <3> QED
      BY <3>1, <3>2
  <2> QED
    BY <1>1, <2>2 DEF CallsGoOn
<1>12. ProbesHold'
  BY <1>1, <1>2, <1>4, <1>6, <1>7 DEF Core, ProbesHold
<1>13. SignerShows'
  BY <1>1, <1>8, <1>17 DEF SignerShows
<1>14. SignersOnTheirNetwork'
  BY <1>1, <1>8 DEF Core, CoreType, SignersOnTheirNetwork
<1>15. NoLateCall'
  BY <1>17 DEF NoLateCall
<1> QED
  BY <1>2, <1>5, <1>7, <1>17, <1>9, <1>10, <1>11, <1>12, <1>13, <1>14, <1>15 DEF Core

\* Call a ends: its task is over and no other changes.
Ended == [NoTask EXCEPT !.at = "ended"]
Ends(a) == task' = [task EXCEPT ![a] = Ended]

\* The adapters but a's are left alone
OwnAdapter(a) ==
    /\ adapter' \in [1..MaxAttempts -> Adapter]
    /\ \A b \in 1..MaxAttempts : b # a => adapter'[b] = adapter[b]

\* What both ends of a call leave in order.
LEMMA EndCalls ==
    ASSUME Core, NEW a \in 1..MaxAttempts, task[a].at \in {"connect", "probe"}, Ends(a),
           OwnAdapter(a), UNCHANGED <<nets, attempt, quit>>, crossed \subseteq crossed',
           UsableGrows
    PROVE  /\ task' \in [1..MaxAttempts -> Task] /\ task'[a].at = "ended"
           /\ \A b \in 1..MaxAttempts : b # a => task'[b] = task[b]
           /\ \A b \in 1..MaxAttempts : b > attempt => task'[b] = NoTask
           /\ CallsGoOn' /\ ProbesHold' /\ NoLateCall'
           /\ \A h \in 1..MaxClients : signer[h] # a
           /\ a <= attempt /\ (quit => a # attempt \/ "script" \in crossed)
           /\ gen' = gen /\ task[a].gen \in 1..gen /\ task[a].gen \in 1..MaxClients
           /\ task[a].wallet \in WALLET_NAMES
<1>1. /\ CoreType /\ MaxAttempts \in Nat /\ MaxClients \in Nat /\ gen' = gen
  BY EventsAssumption DEF Core, MaxAttempts, MaxClients, gen
<1>2. Ended \in Task /\ Ended.at = "ended"
  <2>1. 0 \in 0..MaxClients
    BY <1>1
  <2>2. NoTask \in Task
    BY <2>1 DEF NoTask, Task
  <2> QED
    BY <2>2 DEF Ended, Task
<1>3. /\ task' \in [1..MaxAttempts -> Task] /\ task'[a] = Ended
      /\ \A b \in 1..MaxAttempts : b # a => task'[b] = task[b]
  BY <1>1, <1>2 DEF Ends, CoreType
<1>4. a <= attempt
  BY <1>1 DEF CoreType, NoTask
<1>5. \A b \in 1..MaxAttempts : b > attempt => task'[b] = NoTask
  BY <1>1, <1>3, <1>4 DEF CoreType
<1>6. \A h \in 1..MaxClients : signer[h] # a
  BY DEF Core, SignersEnded
<1>7. quit => a # attempt \/ "script" \in crossed
  BY DEF Core, NoLateCall
<1>8. task[a].gen \in 1..gen /\ task[a].wallet \in WALLET_NAMES
  BY DEF Core, CallsGoOn
<1>9. task[a].gen \in 1..MaxClients
  BY <1>1, <1>8 DEF CoreType
<1>10. CallsGoOn'
  <2>1. \A x : Usable(x, extension, script) => Usable(x, extension', script')
    BY DEF UsableGrows, Usable
  <2>2. ASSUME NEW b \in 1..MaxAttempts, task'[b].at \in {"connect", "probe"}
        PROVE  /\ task'[b].gen \in 1..gen /\ task'[b].wallet \in WALLET_NAMES
               /\ task'[b].usable => Usable(task'[b].wallet, extension', script')
    <3>1. b # a /\ task'[b] = task[b]
      BY <1>2, <1>3, <2>2
    <3> QED
      BY <2>1, <2>2, <3>1 DEF Core, CallsGoOn
  <2> QED
    BY <1>1, <2>2 DEF CallsGoOn
<1>11. ProbesHold'
  <2>1. ASSUME NEW b \in 1..MaxAttempts, task'[b].at = "probe"
        PROVE  /\ task'[b].usable
               /\ adapter'[b].connected => adapter'[b].net \in {NONE, nets[task'[b].gen]}
               /\ b = attempt => adapter'[b].connected /\ adapter'[b].key
    <3>1. b # a /\ task'[b] = task[b] /\ adapter'[b] = adapter[b]
      BY <1>2, <1>3, <2>1 DEF OwnAdapter
    <3> QED
      BY <2>1, <3>1 DEF Core, ProbesHold
  <2> QED
    BY <2>1 DEF ProbesHold
<1>12. NoLateCall'
  BY <1>2, <1>3, <1>7 DEF Core, NoLateCall, CoreType
<1> QED
  BY <1>1, <1>2, <1>3, <1>4, <1>5, <1>6, <1>7, <1>8, <1>9, <1>10, <1>11, <1>12

\* A superseded call ends: it writes nothing but its own adapter.
LEMMA LateCore ==
    ASSUME Core, NEW a \in 1..MaxAttempts, task[a].at \in {"connect", "probe"}, Ends(a),
           OwnAdapter(a), UsableGrows,
           UNCHANGED <<nets, attempt, active, quit, signer, machine, crossed>>
    PROVE  Core'
<1>1. /\ task' \in [1..MaxAttempts -> Task] /\ task'[a].at = "ended"
      /\ \A b \in 1..MaxAttempts : b # a => task'[b] = task[b]
      /\ \A b \in 1..MaxAttempts : b > attempt => task'[b] = NoTask
      /\ CallsGoOn' /\ ProbesHold' /\ NoLateCall'
      /\ \A h \in 1..MaxClients : signer[h] # a
      /\ gen' = gen
  BY EndCalls
<1>2. CoreType'
  BY <1>1 DEF Core, CoreType, OwnAdapter
<1>3. \A h \in 1..MaxClients : signer[h] # 0 => /\ task'[signer[h]] = task[signer[h]]
                                                /\ adapter'[signer[h]] = adapter[signer[h]]
  BY <1>1 DEF Core, CoreType, OwnAdapter
<1>4. SignersEnded'
  BY <1>1, <1>3 DEF Core, SignersEnded
<1>5. gen \in 1..MaxClients /\ MaxClients \in Nat
  BY EventsAssumption DEF Core, CoreType, MaxClients
<1>6. SignerShows'
  BY <1>1, <1>3, <1>5 DEF Core, SignerShows
<1>7. SignersOnTheirNetwork'
  <2>1. \A h \in 1..gen : h \in 1..MaxClients
    BY <1>5
  <2> QED
    BY <1>1, <1>3, <2>1 DEF Core, SignersOnTheirNetwork
<1> QED
  BY <1>1, <1>2, <1>4, <1>6, <1>7 DEF Core

\* A call ends with signer s, its own adapter or none, and the machine at m.
LEMMA EndCore ==
    ASSUME Core, NEW a \in 1..MaxAttempts, task[a].at \in {"connect", "probe"}, Ends(a),
           OwnAdapter(a), UsableGrows,
           NEW s \in {0, a}, NEW m \in Machine,
           signer' = [signer EXCEPT ![task[a].gen] = s], machine' = m,
           crossed' = Crossed(task[a].gen, a),
           UNCHANGED <<nets, attempt, quit>>, active' \in 0..MaxAttempts,
           (s = a /\ adapter'[a].connected) => adapter'[a].net \in {NONE, nets[task[a].gen]},
           (s = a /\ a = attempt) => /\ m.status = "connected" /\ m.adapter = a
                                     /\ adapter'[a].connected /\ adapter'[a].key
    PROVE  Core' /\ (quit' => crossed' \intersect {"probe", "script"} # {})
<1> DEFINE g == task[a].gen
<1>1. /\ task' \in [1..MaxAttempts -> Task] /\ task'[a].at = "ended"
      /\ \A b \in 1..MaxAttempts : b # a => task'[b] = task[b]
      /\ \A b \in 1..MaxAttempts : b > attempt => task'[b] = NoTask
      /\ CallsGoOn' /\ ProbesHold' /\ NoLateCall'
      /\ \A h \in 1..MaxClients : signer[h] # a
      /\ a <= attempt /\ (quit => a # attempt \/ "script" \in crossed)
      /\ gen' = gen /\ g \in 1..gen /\ g \in 1..MaxClients
  <2>1. crossed \subseteq crossed'
    BY DEF Crossed
  <2> QED
    BY <2>1, EndCalls
<1>2. OwnAdapter(a) /\ signer' = [signer EXCEPT ![g] = s]
      /\ crossed' = Crossed(g, a)
      /\ ((s = a /\ adapter'[a].connected) => adapter'[a].net \in {NONE, nets[g]})
  OBVIOUS
<1> HIDE DEF g
<1>3. CoreType /\ gen \in 1..MaxClients /\ a # 0 /\ MaxClients \in Nat /\ MaxAttempts \in Nat
  BY EventsAssumption DEF Core, CoreType, MaxClients, MaxAttempts
<1>4. /\ signer' \in [1..MaxClients -> 0..MaxAttempts] /\ signer'[g] = s
      /\ \A h \in 1..MaxClients : h # g => signer'[h] = signer[h]
  <2>1. s \in 0..MaxAttempts /\ signer \in [1..MaxClients -> 0..MaxAttempts]
    BY <1>3 DEF CoreType
  <2>2. g \in 1..MaxClients /\ signer' = [signer EXCEPT ![g] = s]
    BY <1>1, <1>2
  <2> QED
    BY <2>1, <2>2
<1>5. crossed' \subseteq {"probe", "client", "script"} /\ (a # attempt => "probe" \in crossed')
      /\ (g # gen => "client" \in crossed') /\ crossed \subseteq crossed'
  BY <1>2, <1>3 DEF Crossed, CoreType
<1>6. CoreType'
  BY <1>1, <1>2, <1>3, <1>4, <1>5 DEF CoreType, OwnAdapter
<1>7. \A h \in 1..MaxClients : signer[h] # 0 => /\ task'[signer[h]] = task[signer[h]]
                                                /\ adapter'[signer[h]] = adapter[signer[h]]
  BY <1>1, <1>2, <1>3 DEF CoreType, OwnAdapter
<1>8. SignersEnded'
  <2>1. ASSUME NEW h \in 1..MaxClients
        PROVE  (h > gen => signer'[h] = 0) /\ (signer'[h] # 0 => task'[signer'[h]].at = "ended")
    <3>1. CASE h = g
      BY <1>1, <1>3, <1>4, <3>1
    <3>2. CASE h # g
      BY <1>4, <1>7, <3>2 DEF Core, SignersEnded
    <3> QED
      BY <3>1, <3>2
  <2> QED
    BY <1>1, <2>1 DEF SignersEnded
<1>9. SignerShows'
  <2> SUFFICES ASSUME signer'[gen] # 0, crossed' \intersect {"probe", "client"} = {}
               PROVE  /\ m.status = "connected" /\ m.adapter = signer'[gen]
                      /\ adapter'[signer'[gen]].connected /\ adapter'[signer'[gen]].key
    BY <1>1 DEF SignerShows
  <2>1. g = gen /\ a = attempt /\ s = a /\ signer'[gen] = a
    BY <1>4, <1>5
  <2> QED
    BY <2>1
<1>10. SignersOnTheirNetwork'
  <2>1. ASSUME NEW h \in 1..gen, signer'[h] # 0, adapter'[signer'[h]].connected
        PROVE  adapter'[signer'[h]].net \in {NONE, nets[h]}
    <3>1. h \in 1..MaxClients
      BY <1>3
    <3>2. CASE h = g
      BY <1>2, <1>4, <2>1, <3>2 DEF OwnAdapter
    <3>3. CASE h # g
      BY <1>4, <1>7, <2>1, <3>1, <3>3 DEF Core, SignersOnTheirNetwork
    <3> QED
      BY <3>2, <3>3
  <2> QED
    BY <1>1, <2>1 DEF SignersOnTheirNetwork
<1> QED
  BY <1>1, <1>5, <1>6, <1>8, <1>9, <1>10 DEF Core

Probes(a) == task' = [task EXCEPT ![a].at = "probe"]
Accepts(a, n) ==
    adapter' = [adapter EXCEPT ![a] = [connected |-> TRUE, key |-> TRUE, net |-> n]]

\* The current call goes on to its hardware probe, with an adapter of its
\* client's network.
LEMMA ProbeCore ==
    ASSUME Core, NEW a \in 1..MaxAttempts, a = attempt, task[a].at = "connect", task[a].usable,
           NEW n \in Networks \union {NONE}, n \in {NONE, nets[task[a].gen]},
           Probes(a), Accepts(a, n),
           UsableGrows, UNCHANGED <<nets, attempt, active, quit, signer, machine, crossed>>
    PROVE  Core'
<1> DEFINE e == [task[a] EXCEPT !.at = "probe"]
           d == [connected |-> TRUE, key |-> TRUE, net |-> n]
           g == task[a].gen
<1>1. /\ CoreType /\ MaxAttempts \in Nat /\ MaxClients \in Nat /\ gen' = gen
      /\ gen \in 1..MaxClients /\ task[a] \in Task
  BY EventsAssumption DEF Core, CoreType, MaxAttempts, MaxClients, gen
<1>2. e \in Task /\ e.at = "probe" /\ e.gen = g /\ e.wallet = task[a].wallet /\ e.usable
  BY <1>1 DEF Task
<1>3. d \in Adapter /\ d.connected /\ d.key /\ d.net = n
  BY DEF Adapter
<1>4. task' = [task EXCEPT ![a] = e] /\ adapter' = [adapter EXCEPT ![a] = d]
  BY DEF Probes, Accepts
<1>5. /\ g \in 1..gen /\ task[a].wallet \in WALLET_NAMES /\ n \in {NONE, nets[g]}
      /\ Usable(task[a].wallet, extension, script)
  BY DEF Core, CallsGoOn
<1> HIDE DEF e, d, g
<1>6. /\ task' \in [1..MaxAttempts -> Task] /\ task'[a] = e
      /\ \A b \in 1..MaxAttempts : b # a => task'[b] = task[b]
      /\ adapter' \in [1..MaxAttempts -> Adapter] /\ adapter'[a] = d
      /\ \A b \in 1..MaxAttempts : b # a => adapter'[b] = adapter[b]
  <2>1. task \in [1..MaxAttempts -> Task] /\ adapter \in [1..MaxAttempts -> Adapter]
    BY <1>1 DEF CoreType
  <2>3. e \in Task /\ d \in Adapter
    BY <1>2, <1>3
  <2>4. /\ task' \in [1..MaxAttempts -> Task] /\ task'[a] = e
        /\ \A b \in 1..MaxAttempts : b # a => task'[b] = task[b]
    BY <1>4, <2>1, <2>3
  <2>5. /\ adapter' \in [1..MaxAttempts -> Adapter] /\ adapter'[a] = d
        /\ \A b \in 1..MaxAttempts : b # a => adapter'[b] = adapter[b]
    BY <1>4, <2>1, <2>3
  <2> QED
    BY <2>4, <2>5
<1>7. \A h \in 1..MaxClients : signer[h] # a
  BY DEF Core, SignersEnded
<1>8. CoreType'
  BY <1>1, <1>6 DEF CoreType
<1>9. \A h \in 1..MaxClients : signer[h] # 0 => /\ task'[signer[h]] = task[signer[h]]
                                                /\ adapter'[signer[h]] = adapter[signer[h]]
  BY <1>1, <1>6, <1>7 DEF CoreType
<1>10. SignersEnded'
  BY <1>1, <1>9 DEF Core, SignersEnded
<1>11. CallsGoOn'
  <2>1. \A x : Usable(x, extension, script) => Usable(x, extension', script')
    BY DEF UsableGrows, Usable
  <2>2. ASSUME NEW b \in 1..MaxAttempts, task'[b].at \in {"connect", "probe"}
        PROVE  /\ task'[b].gen \in 1..gen /\ task'[b].wallet \in WALLET_NAMES
               /\ task'[b].usable => Usable(task'[b].wallet, extension', script')
    <3>1. CASE b = a
      BY <1>2, <1>5, <1>6, <2>1, <3>1
    <3>2. CASE b # a
      BY <1>6, <2>1, <2>2, <3>2 DEF Core, CallsGoOn
    <3> QED
      BY <3>1, <3>2
  <2> QED
    BY <1>1, <2>2 DEF CallsGoOn
<1>12. ProbesHold'
  <2>1. ASSUME NEW b \in 1..MaxAttempts, task'[b].at = "probe"
        PROVE  /\ task'[b].usable
               /\ adapter'[b].connected => adapter'[b].net \in {NONE, nets[task'[b].gen]}
               /\ b = attempt => adapter'[b].connected /\ adapter'[b].key
    <3>1. CASE b = a
      BY <1>2, <1>3, <1>5, <1>6, <3>1
    <3>2. CASE b # a
      BY <1>6, <2>1, <3>2 DEF Core, ProbesHold
    <3> QED
      BY <3>1, <3>2
  <2> QED
    BY <2>1 DEF ProbesHold
<1>13. SignerShows'
  BY <1>1, <1>9 DEF Core, SignerShows
<1>14. SignersOnTheirNetwork'
  <2>1. \A h \in 1..gen : h \in 1..MaxClients
    BY <1>1
  <2> QED
    BY <1>1, <1>9, <2>1 DEF Core, SignersOnTheirNetwork
<1>15. NoLateCall'
  BY DEF Core, NoLateCall
<1> QED
  BY <1>8, <1>10, <1>11, <1>12, <1>13, <1>14, <1>15 DEF Core

\* disconnect: the number it takes belongs to no call.
LEMMA DisconnectCore ==
    ASSUME Core, attempt < MaxAttempts, attempt' = attempt + 1, active' = 0, quit' = TRUE,
           adapter' = adapter \/ \E p \in 1..MaxAttempts : adapter' = [adapter EXCEPT ![p] = Scrubbed],
           signer' = [signer EXCEPT ![gen] = 0], machine' = disconnectedState,
           crossed' = {}, UNCHANGED <<nets, task, extension, script>>
    PROVE  Core' /\ signer'[gen'] = 0
<1>1. /\ CoreType /\ MaxAttempts \in Nat /\ MaxClients \in Nat /\ gen' = gen
      /\ gen \in 1..MaxClients
  BY EventsAssumption DEF Core, CoreType, MaxAttempts, MaxClients, gen
<1>2. Scrubbed \in Adapter /\ ~Scrubbed.connected
  BY DEF Scrubbed, Adapter
<1>3. /\ adapter' \in [1..MaxAttempts -> Adapter]
      /\ \A b \in 1..MaxAttempts : adapter'[b] = adapter[b] \/ ~adapter'[b].connected
  BY <1>1, <1>2 DEF CoreType
<1>4. /\ signer' \in [1..MaxClients -> 0..MaxAttempts] /\ signer'[gen] = 0
      /\ \A h \in 1..MaxClients : h # gen => signer'[h] = signer[h]
  BY <1>1 DEF CoreType
<1>5. attempt + 1 \in 1..MaxAttempts /\ task[attempt + 1] = NoTask /\ attempt + 1 # 0
  BY <1>1 DEF CoreType
<1>6. disconnectedState \in Machine
  BY <1>1 DEF disconnectedState, Machine
<1>7. CoreType'
  <2>1. attempt' \in 0..MaxAttempts /\ active' \in 0..MaxAttempts
        /\ \A a \in 1..MaxAttempts : a > attempt' => task[a] = NoTask
    BY <1>1, <1>5 DEF CoreType
  <2> QED
    BY <1>1, <1>3, <1>4, <1>6, <2>1 DEF CoreType
<1>8. SignersEnded'
  BY <1>1, <1>4 DEF Core, SignersEnded
<1>9. CallsGoOn'
  BY <1>1 DEF Core, CallsGoOn
<1>10. ProbesHold'
  <2>1. ASSUME NEW b \in 1..MaxAttempts, task[b].at = "probe"
        PROVE  /\ task[b].usable
               /\ adapter'[b].connected => adapter'[b].net \in {NONE, nets[task[b].gen]}
               /\ b # attempt + 1
    BY <1>3, <1>5, <2>1 DEF Core, ProbesHold, NoTask
  <2> QED
    BY <2>1 DEF ProbesHold
<1>11. SignerShows'
  BY <1>1, <1>4 DEF SignerShows
<1>12. SignersOnTheirNetwork'
  <2>1. ASSUME NEW h \in 1..gen, signer'[h] # 0, adapter'[signer'[h]].connected
        PROVE  adapter'[signer'[h]].net \in {NONE, nets[h]}
    <3>1. h \in 1..MaxClients /\ h # gen /\ signer'[h] = signer[h] /\ signer[h] \in 1..MaxAttempts
      BY <1>1, <1>4, <2>1 DEF CoreType
    <3> QED
      BY <1>3, <2>1, <3>1 DEF Core, SignersOnTheirNetwork
  <2> QED
    BY <1>1, <2>1 DEF SignersOnTheirNetwork
<1>13. NoLateCall'
  BY <1>5 DEF NoLateCall, NoTask
<1> QED
  BY <1>1, <1>4, <1>7, <1>8, <1>9, <1>10, <1>11, <1>12, <1>13 DEF Core

\* setNetwork: the new client has no signer yet, the others keep theirs.
LEMMA SwitchCore ==
    ASSUME Core, NEW id \in Networks, gen < MaxClients, nets' = Append(nets, id),
           UNCHANGED <<signer, attempt, active, task, adapter, machine, quit, crossed, extension, script>>
    PROVE  Core' /\ gen' = gen + 1 /\ signer'[gen'] = 0
<1>1. /\ CoreType /\ MaxAttempts \in Nat /\ MaxClients \in Nat /\ nets \in Seq(Networks)
      /\ gen \in 1..MaxClients
  BY EventsAssumption DEF Core, CoreType, MaxAttempts, MaxClients
<1>2. /\ gen' = gen + 1 /\ gen' \in 1..MaxClients /\ nets' \in Seq(Networks)
      /\ \A h \in 1..gen : nets'[h] = nets[h] /\ h \in 1..gen'
  BY <1>1 DEF gen
<1>3. \A h \in 1..gen' : h \in 1..gen \/ h = gen'
  BY <1>1, <1>2
<1>4. signer[gen'] = 0
  BY <1>1, <1>2 DEF Core, SignersEnded
<1>5. CoreType'
  BY <1>1, <1>2 DEF CoreType
<1>6. SignersEnded'
  BY <1>1, <1>2 DEF Core, SignersEnded
<1>7. CallsGoOn'
  BY <1>2 DEF Core, CallsGoOn
<1>8. ProbesHold'
  BY <1>2 DEF Core, ProbesHold, CallsGoOn
<1>9. SignerShows' /\ NoLateCall'
  BY <1>4 DEF Core, SignerShows, NoLateCall
<1>10. SignersOnTheirNetwork'
  BY <1>2, <1>3, <1>4 DEF Core, SignersOnTheirNetwork
<1> QED
  BY <1>2, <1>4, <1>5, <1>6, <1>7, <1>8, <1>9, <1>10 DEF Core

\* A fresh page.
LEMMA FreshCore ==
    ASSUME nets = <<Home>>, signer = [g \in 1..MaxClients |-> 0], attempt = 0, active = 0,
           task = [a \in 1..MaxAttempts |-> NoTask],
           adapter = [a \in 1..MaxAttempts |-> Scrubbed], machine = disconnectedState,
           quit = FALSE, crossed = {}
    PROVE  Core /\ gen = 1 /\ machine.status # "connected"
<1>1. MaxAttempts \in Nat /\ MaxClients \in Nat /\ 1 \in 1..MaxClients /\ Home \in Networks
      /\ 0 \in 0..MaxAttempts /\ 0 \in 0..MaxClients
  BY EventsAssumption, HomeAssumption DEF MaxAttempts, MaxClients
<1>2. NoTask \in Task /\ NoTask.at = "none"
  BY <1>1 DEF NoTask, Task
<1>3. Scrubbed \in Adapter /\ disconnectedState \in Machine
      /\ disconnectedState.status = "disconnected"
  BY <1>1 DEF Scrubbed, Adapter, disconnectedState, Machine
<1>4. gen = 1 /\ nets \in Seq(Networks)
  BY <1>1 DEF gen
<1>5. CoreType
  BY <1>1, <1>2, <1>3, <1>4 DEF CoreType
<1>6. SignersEnded /\ CallsGoOn /\ ProbesHold
  BY <1>1, <1>2 DEF SignersEnded, CallsGoOn, ProbesHold
<1>7. SignerShows /\ SignersOnTheirNetwork /\ NoLateCall
  BY <1>1, <1>4 DEF SignerShows, SignersOnTheirNetwork, NoLateCall
<1> QED
  BY <1>3, <1>4, <1>5, <1>6, <1>7 DEF Core

\* Steps that leave the core alone.
LEMMA SameCore ==
    ASSUME Core, UsableGrows,
           UNCHANGED <<nets, signer, attempt, active, task, adapter, machine, quit, crossed>>
    PROVE  Core'
<1>1. gen' = gen
  BY DEF gen
<1>2. CoreType' /\ SignersEnded' /\ ProbesHold' /\ SignerShows' /\ NoLateCall'
  BY <1>1 DEF Core, CoreType, SignersEnded, ProbesHold, SignerShows, NoLateCall
<1>3. SignersOnTheirNetwork'
  BY <1>1 DEF Core, SignersOnTheirNetwork
<1>4. \A x : Usable(x, extension, script) => Usable(x, extension', script')
  BY DEF UsableGrows, Usable
<1>5. CallsGoOn'
  BY <1>1, <1>4 DEF Core, CallsGoOn
<1> QED
  BY <1>2, <1>3, <1>5 DEF Core

----------------------------------------------------------------------------
(* The wallet: its actions *)

\* What the page lists is only ever what it listed or what is detected now.
LEMMA Refreshed ==
    ASSUME SideType
    PROVE  /\ detectWallets \in [freighter : BOOLEAN, albedo : BOOLEAN, loadFailed : BOOLEAN]
           /\ \A w : Usable(w, extension, script) => Lists(w, detectWallets)
           /\ Notified \in {available, detectWallets}
           /\ env.restore => Notified = detectWallets
           /\ \A a : listed(a) \in {available, detectWallets}
           /\ \A a : (env.restore /\ (a = attempt \/ task[a].at = "probe")) =>
                        listed(a) = detectWallets
<1>1. extension \in BOOLEAN
  BY DEF SideType
<1>2. detectWallets \in [freighter : BOOLEAN, albedo : BOOLEAN, loadFailed : BOOLEAN]
      /\ detectWallets.freighter = extension /\ detectWallets.albedo = (script = "ready")
  BY <1>1 DEF detectWallets, isFreighterInstalled, isAlbedoAvailable
<1>3. \A w : Usable(w, extension, script) => Lists(w, detectWallets)
  BY <1>2 DEF Usable, Lists
<1> QED
  BY <1>2, <1>3 DEF Notified, listed

\* A page whose machine is left alone lists what it shows.
LEMMA ListedKeeps ==
    ASSUME WInv, UNCHANGED <<env, machine>>, UsableGrows,
           available' \in {available, detectWallets}
    PROVE  ShownIsListed'
<1>1. \A w : Usable(w, extension, script) => Lists(w, detectWallets)
  BY Refreshed DEF WInv
<1>2. \A x : Usable(x, extension, script) => Usable(x, extension', script')
  BY DEF UsableGrows, Usable
<1> QED
  BY <1>1, <1>2 DEF WInv, ShownIsListed

\* The bounds are never met: what an event may still need is kept for it.
LEMMA Room ==
    ASSUME WInv
    PROVE  /\ MaxAttempts \in Nat /\ MaxClients \in Nat /\ MaxAttempts = MaxEvents + 1
           /\ attempt \in Nat /\ events \in Nat /\ Len(waiting) \in Nat /\ gen \in Nat
           /\ waiting \in Seq(1..gen) /\ extension \in BOOLEAN /\ gen \in 1..gen
           /\ due \in BOOLEAN
           /\ due => attempt + Len(waiting) + 1 + events <= MaxAttempts
           /\ ~due => attempt + Len(waiting) + events <= MaxAttempts
           /\ gen + events <= MaxClients
BY EventsAssumption DEF WInv, Core, CoreType, SideType, MaxAttempts, MaxClients

\* Rejected: the current call reports an error, a late one nothing.
LEMMA RejectedStep ==
    ASSUME WInv, NEW a \in 1..MaxAttempts, Rejected(a)
    PROVE  WInv'
<1>1. /\ task[a].at = "connect" /\ available' = listed(a)
      /\ UNCHANGED <<env, nets, chosen, attempt, adapter, due, script, watched,
                     extension, waiting, quit, events>>
      /\ Returned(a)
  BY DEF Rejected, pageVars, Failed
<1>2. Core /\ SideType /\ QuitHolds /\ CoreType /\ UsableGrows /\ Ends(a) /\ OwnAdapter(a)
  BY <1>1 DEF WInv, Core, CoreType, UsableGrows, Returned, Ends, Ended, OwnAdapter
<1>3. /\ available' \in {available, detectWallets}
      /\ available' \in [freighter : BOOLEAN, albedo : BOOLEAN, loadFailed : BOOLEAN]
  BY <1>1, <1>2, Refreshed DEF SideType
<1>4. restoring' \in BOOLEAN /\ gen' = gen
  BY <1>1, <1>2 DEF Returned, SideType, gen
<1>5. CASE a = attempt
  <2> DEFINE m == [status |-> "error", adapter |-> a, wallet |-> task[a].wallet]
  <2>1. /\ signer' = [signer EXCEPT ![task[a].gen] = 0] /\ active' = a
        /\ session' = NONE /\ machine' = m /\ crossed' = Crossed(task[a].gen, a)
    BY <1>5, Reduced DEF Rejected, Failed
  <2>2. MaxAttempts \in Nat /\ task[a].wallet \in WALLET_NAMES
    BY <1>1, <1>2, Room DEF Core, CallsGoOn
  <2>3. m \in Machine /\ m.status = "error"
    BY <2>2 DEF Machine
  <2> HIDE DEF m
  <2>4. active' \in 0..MaxAttempts /\ a # 0
    BY <2>1, <2>2
  <2>5. Core' /\ (quit' => crossed' \intersect {"probe", "script"} # {})
    BY <1>1, <1>2, <2>1, <2>3, <2>4, EndCore
  <2>6. SideType'
    BY <1>1, <1>2, <1>3, <1>4, <2>1 DEF SideType
  <2>7. ShownIsListed' /\ QuitHolds'
    BY <2>1, <2>3, <2>5 DEF ShownIsListed, QuitHolds
  <2> QED
    BY <2>5, <2>6, <2>7 DEF WInv
<1>6. CASE a # attempt
  <2>1. UNCHANGED <<signer, active, session, machine, crossed>>
    BY <1>6 DEF Rejected
  <2>2. Core'
    BY <1>1, <1>2, <2>1, LateCore
  <2>3. SideType'
    BY <1>1, <1>2, <1>3, <1>4, <2>1 DEF SideType
  <2>4. ShownIsListed'
    BY <1>1, <1>2, <1>3, <2>1, ListedKeeps
  <2>5. QuitHolds'
    BY <1>1, <1>2, <1>4, <2>1 DEF QuitHolds
  <2> QED
    BY <2>2, <2>3, <2>4, <2>5 DEF WInv
<1> QED
  BY <1>5, <1>6

\* The end of a successful call.
LEMMA AttachStep ==
    ASSUME WInv, NEW a \in 1..MaxAttempts, task[a].at \in {"connect", "probe"}, task[a].usable,
           a = attempt \/ task[a].at = "probe", Attach(a), available' = listed(a), OwnAdapter(a),
           adapter'[a].connected => adapter'[a].net \in {NONE, nets[task[a].gen]},
           a = attempt => adapter'[a].connected /\ adapter'[a].key,
           UNCHANGED <<env, nets, chosen, attempt, active, due, script, watched,
                       extension, waiting, quit, events>>
    PROVE  WInv'
<1> DEFINE m == [status |-> "connected", adapter |-> a, wallet |-> task[a].wallet]
<1>1. Core /\ SideType /\ CoreType /\ UsableGrows /\ Ends(a)
  BY DEF WInv, Core, UsableGrows, Attach, Returned, Ends, Ended
<1>2. /\ signer' = [signer EXCEPT ![task[a].gen] = a] /\ machine' = m
      /\ crossed' = Crossed(task[a].gen, a)
      /\ session' \in {session, [wallet |-> task[a].wallet, net |-> nets[task[a].gen]]}
  BY Reduced DEF Attach, writeStoredValue
<1>3. /\ MaxAttempts \in Nat /\ task[a].wallet \in WALLET_NAMES /\ task[a].gen \in 1..gen
      /\ Usable(task[a].wallet, extension, script)
  BY <1>1, Room DEF Core, CallsGoOn
<1>4. m \in Machine /\ m.status = "connected" /\ m.adapter = a /\ m.wallet = task[a].wallet
  BY <1>3 DEF Machine
<1>5. nets[task[a].gen] \in Networks
  BY <1>1, <1>3 DEF CoreType, gen
<1>6. session' \in AllSessions \union {NONE}
  BY <1>1, <1>2, <1>3, <1>5 DEF AllSessions, SideType
<1>7. /\ available' \in {available, detectWallets} /\ (env.restore => available' = detectWallets)
      /\ available' \in [freighter : BOOLEAN, albedo : BOOLEAN, loadFailed : BOOLEAN]
      /\ Lists(task[a].wallet, detectWallets)
  BY <1>1, <1>3, Refreshed DEF SideType
<1>8. restoring' \in BOOLEAN /\ gen' = gen
  BY <1>1 DEF Attach, Returned, SideType, gen
<1> HIDE DEF m
<1>9. Core' /\ (quit' => crossed' \intersect {"probe", "script"} # {})
  <2>1. active' \in 0..MaxAttempts
    BY <1>1 DEF CoreType
  <2> QED
    BY <1>1, <1>2, <1>4, <2>1, EndCore
<1>10. SideType'
  BY <1>1, <1>6, <1>7, <1>8 DEF SideType
<1>11. ShownIsListed' /\ QuitHolds'
  BY <1>2, <1>3, <1>4, <1>7, <1>9 DEF ShownIsListed, QuitHolds
<1> QED
  BY <1>9, <1>10, <1>11 DEF WInv

\* Answered: late, on another network, on the way to a probe, or connected.
LEMMA AnsweredStep ==
    ASSUME WInv, NEW a \in 1..MaxAttempts, NEW n \in Networks \union {NONE}, Answered(a, n)
    PROVE  WInv'
<1>1. /\ task[a].at = "connect" /\ task[a].usable
      /\ UNCHANGED <<env, nets, chosen, attempt, active, due, script, watched,
                     extension, waiting, quit, events>>
      /\ available' = IF task'[a].at = "ended" THEN listed(a) ELSE available
  BY DEF Answered, pageVars
<1>2. Core /\ SideType /\ CoreType /\ QuitHolds /\ UsableGrows /\ gen' = gen
  BY <1>1 DEF WInv, Core, UsableGrows, gen
<1>3. Returned(a) => task'[a] = Ended /\ task'[a].at = "ended" /\ Ends(a)
                     /\ restoring' \in BOOLEAN
  BY <1>2 DEF Returned, Ends, Ended, NoTask, CoreType, SideType
<1>4. /\ available' \in {available, detectWallets}
      /\ available' \in [freighter : BOOLEAN, albedo : BOOLEAN, loadFailed : BOOLEAN]
  BY <1>1, <1>2, Refreshed DEF SideType
<1>5. /\ task[a].wallet \in WALLET_NAMES /\ task[a].gen \in 1..gen /\ MaxAttempts \in Nat
      /\ nets[task[a].gen] \in Networks
  BY <1>1, <1>2, Room DEF Core, CallsGoOn, CoreType, gen
<1> DEFINE d == [connected |-> TRUE, key |-> TRUE, net |-> n]
<1>6. d \in Adapter /\ d.connected /\ d.key /\ d.net = n /\ Scrubbed \in Adapter
  BY DEF Adapter, Scrubbed
<1>7. CASE a # attempt
  <2>1. /\ adapter' = [adapter EXCEPT ![a] = Scrubbed] /\ Returned(a)
        /\ UNCHANGED <<signer, session, machine, crossed>>
    BY <1>7 DEF Answered
  <2>2. OwnAdapter(a)
    BY <1>2, <1>6, <2>1 DEF OwnAdapter, CoreType
  <2>3. Core'
    BY <1>1, <1>2, <1>3, <2>1, <2>2, LateCore
  <2>4. SideType'
    BY <1>1, <1>2, <1>3, <1>4, <2>1 DEF SideType
  <2>5. ShownIsListed'
    BY <1>1, <1>2, <1>4, <2>1, ListedKeeps
  <2>6. QuitHolds'
    BY <1>1, <1>2, <2>1 DEF QuitHolds
  <2> QED
    BY <2>3, <2>4, <2>5, <2>6 DEF WInv
<1>8. CASE a = attempt
  <2>1. adapter' = [adapter EXCEPT ![a] = d]
    BY <1>8 DEF Answered
  <2>2. adapter'[a] = d
    BY <1>2, <2>1 DEF CoreType
  <2>3. OwnAdapter(a) /\ Accepts(a, n)
    <3>1. Accepts(a, n)
      BY <2>1 DEF Accepts
    <3> HIDE DEF d
    <3> QED
      BY <1>2, <1>6, <2>1, <3>1 DEF OwnAdapter, CoreType
  <2> HIDE DEF d
  <2>4. CASE n \notin {NONE, nets[task[a].gen]}
    <3> DEFINE m == [status |-> "wrong-network", adapter |-> a, wallet |-> task[a].wallet]
    <3>1. /\ signer' = [signer EXCEPT ![task[a].gen] = 0] /\ machine' = m
          /\ crossed' = Crossed(task[a].gen, a) /\ Returned(a)
          /\ session' \in {session, [wallet |-> task[a].wallet, net |-> nets[task[a].gen]]}
      BY <1>8, <2>4, Reduced DEF Answered, WrongNetwork, writeStoredValue
    <3>2. m \in Machine /\ m.status = "wrong-network"
      BY <1>5 DEF Machine
    <3> HIDE DEF m
    <3>3. active' \in 0..MaxAttempts /\ a # 0
      BY <1>1, <1>2 DEF CoreType
    <3>4. Core' /\ (quit' => crossed' \intersect {"probe", "script"} # {})
      BY <1>1, <1>2, <1>3, <2>3, <3>1, <3>2, <3>3, EndCore
    <3>5. session' \in AllSessions \union {NONE}
      BY <1>2, <1>5, <3>1 DEF AllSessions, SideType
    <3>6. SideType'
      BY <1>1, <1>2, <1>3, <1>4, <3>1, <3>5 DEF SideType
    <3>7. ShownIsListed' /\ QuitHolds'
      BY <3>1, <3>2, <3>4 DEF ShownIsListed, QuitHolds
    <3> QED
      BY <3>4, <3>6, <3>7 DEF WInv
  <2>5. CASE n \in {NONE, nets[task[a].gen]} /\ task[a].wallet = "freighter" /\ env.probes
    <3>1. Probes(a) /\ UNCHANGED <<signer, session, machine, crossed, restoring>>
      BY <1>8, <2>5 DEF Answered, Probes
    <3>2. Core'
      BY <1>1, <1>2, <1>8, <2>3, <2>5, <3>1, ProbeCore
    <3>3. SideType'
      BY <1>1, <1>2, <1>4, <3>1 DEF SideType
    <3>4. ShownIsListed'
      BY <1>1, <1>2, <1>4, <3>1, ListedKeeps
    <3>5. QuitHolds'
      BY <1>1, <1>2, <3>1 DEF QuitHolds
    <3> QED
      BY <3>2, <3>3, <3>4, <3>5 DEF WInv
  <2>6. CASE n \in {NONE, nets[task[a].gen]} /\ ~(task[a].wallet = "freighter" /\ env.probes)
    <3>1. Attach(a) /\ Returned(a)
      BY <1>8, <2>6 DEF Answered, Attach
    <3>2. available' = listed(a)
      BY <1>1, <1>3, <3>1
    <3>3. /\ adapter'[a].connected => adapter'[a].net \in {NONE, nets[task[a].gen]}
          /\ adapter'[a].connected /\ adapter'[a].key
      BY <1>6, <2>2, <2>6
    <3> QED
      BY <1>1, <1>8, <2>3, <3>1, <3>2, <3>3, AttachStep
  <2> QED
    BY <2>4, <2>5, <2>6
<1> QED
  BY <1>7, <1>8

\* Probed: the call goes on with the adapter it had.
LEMMA ProbedStep ==
    ASSUME WInv, NEW a \in 1..MaxAttempts, Probed(a)
    PROVE  WInv'
<1>1. /\ task[a].at = "probe" /\ Attach(a) /\ available' = listed(a)
      /\ UNCHANGED <<env, nets, chosen, attempt, adapter, active, due, script,
                     watched, extension, waiting, quit, events>>
  BY DEF Probed, pageVars
<1>2. /\ task[a].usable
      /\ adapter'[a].connected => adapter'[a].net \in {NONE, nets[task[a].gen]}
      /\ a = attempt => adapter'[a].connected /\ adapter'[a].key
      /\ OwnAdapter(a)
  BY <1>1 DEF WInv, Core, CoreType, ProbesHold, OwnAdapter
<1> QED
  BY <1>1, <1>2, AttachStep

\* A call is made.
LEMMA ConnectStep ==
    ASSUME WInv, NEW w \in WALLET_NAMES, NEW g \in 1..gen,
           NEW via \in {"connect", "connectWallet", "restore"},
           NEW asked \in BOOLEAN, connect(w, g, via, asked),
           attempt < MaxAttempts, UNCHANGED <<nets, adapter>>, UsableGrows
    PROVE  Core' /\ ShownIsListed' /\ QuitHolds' /\ attempt' = attempt + 1 /\ gen' = gen
<1>1. /\ Core' /\ machine'.status = "connecting" /\ attempt' = attempt + 1
      /\ quit' => "script" \in crossed'
  BY Room, ConnectCore DEF WInv
<1>2. gen' = gen
  BY DEF gen
<1> QED
  BY <1>1, <1>2 DEF ShownIsListed, QuitHolds

\* Restore: the remembered session is connected, or forgotten.
LEMMA RestoreStep ==
    ASSUME WInv, Restore
    PROVE  WInv'
<1>1. /\ due /\ due' = FALSE /\ UNCHANGED <<env, nets, chosen, adapter, extension, waiting, events>>
  BY DEF Restore, pageVars
<1>2. Core /\ SideType /\ QuitHolds /\ gen' = gen
  BY <1>1 DEF WInv, gen
<1>3. attempt < MaxAttempts /\ attempt + 1 + Len(waiting) + events <= MaxAttempts
      /\ attempt + Len(waiting) + events <= MaxAttempts
      /\ gen \in 1..gen
  BY <1>1, Room
<1>6. ASSUME attempt' \in {attempt, attempt + 1}
      PROVE  /\ attempt' + Len(waiting') + (IF due' THEN 1 ELSE 0) + events' <= MaxAttempts
             /\ gen' + events' <= MaxClients
             /\ events' \in Nat /\ waiting' \in Seq(1..gen') /\ due' \in BOOLEAN
  <2>1. ~due' /\ due' \in BOOLEAN
    BY <1>1
  <2>2. waiting' = waiting /\ events' = events /\ gen' = gen
    BY <1>1, <1>2
  <2>3. /\ attempt' + Len(waiting) + 0 + events <= MaxAttempts
        /\ gen + events <= MaxClients /\ events \in Nat /\ waiting \in Seq(1..gen)
    BY <1>3, <1>6, Room
  <2> QED
    BY <2>1, <2>2, <2>3
<1>4. CASE session # NONE /\ isSessionWalletUsable(session.wallet)
  <2>1. /\ connect(session.wallet, gen, "restore", TRUE)
        /\ script' = IF session.wallet = "albedo" THEN loadAlbedoScript ELSE script
        /\ watched' = (watched \/ (session.wallet = "albedo" /\ script' = "loading"))
        /\ UNCHANGED <<session, restoring, available>>
    BY <1>4 DEF Restore
  <2>2. session.wallet \in WALLET_NAMES
    BY <1>2, <1>4 DEF SideType, AllSessions
  <2>3. UsableGrows /\ script' \in {"absent", "loading", "ready", "failed"} /\ watched' \in BOOLEAN
    BY <1>1, <1>2, <2>1 DEF UsableGrows, loadAlbedoScript, SideType
  <2>4. Core' /\ ShownIsListed' /\ QuitHolds' /\ attempt' = attempt + 1
    BY <1>1, <1>3, <2>1, <2>2, <2>3, ConnectStep
  <2>5. SideType'
    BY <1>1, <1>2, <1>6, <2>1, <2>3, <2>4 DEF SideType
  <2> QED
    BY <2>4, <2>5 DEF WInv
<1>5. CASE ~(session # NONE /\ isSessionWalletUsable(session.wallet))
  <2>1. /\ session' = NONE /\ restoring' = FALSE
        /\ available' = IF session = NONE THEN available ELSE Notified
        /\ UNCHANGED <<attempt, active, signer, machine, task, script, watched, quit, crossed>>
    BY <1>5 DEF Restore
  <2>2. UsableGrows /\ available' \in {available, detectWallets}
        /\ available' \in [freighter : BOOLEAN, albedo : BOOLEAN, loadFailed : BOOLEAN]
    BY <1>1, <1>2, <2>1, Refreshed DEF UsableGrows, SideType
  <2>3. Core'
    BY <1>1, <1>2, <2>1, <2>2, SameCore
  <2>4. SideType'
    BY <1>1, <1>2, <1>6, <2>1, <2>2 DEF SideType
  <2>5. ShownIsListed'
    BY <1>1, <2>1, <2>2, ListedKeeps
  <2>6. QuitHolds'
    BY <1>2, <2>1 DEF QuitHolds
  <2> QED
    BY <2>3, <2>4, <2>5, <2>6 DEF WInv
<1> QED
  BY <1>4, <1>5

\* Steps that only touch what is around the core.
LEMMA SideStep ==
    ASSUME WInv, UsableGrows, SideType', available' \in {available, detectWallets},
           UNCHANGED <<env, nets, signer, attempt, active, task, adapter, machine, crossed>>,
           \/ quit' = quit /\ session' \in {session, NONE}
           \/ quit' = FALSE
    PROVE  WInv'
<1>1. Core /\ QuitHolds /\ gen' = gen
  BY DEF WInv, gen
<1>2. Core'
  <2>1. gen' = gen /\ CoreType
    BY <1>1 DEF Core
  <2>2. CoreType' /\ SignersEnded' /\ ProbesHold' /\ SignerShows' /\ NoLateCall'
    <3>1. quit' \in BOOLEAN /\ (quit' => quit)
      <4>1. quit \in BOOLEAN
        BY <2>1 DEF CoreType
      <4>2. CASE quit' = quit
        BY <4>1, <4>2
      <4>3. CASE quit' = FALSE
        BY <4>3
      <4> QED
        BY <4>2, <4>3
    <3>2. CoreType'
      BY <2>1, <3>1 DEF CoreType
    <3>3. NoLateCall'
      BY <1>1, <3>1 DEF Core, NoLateCall
    <3> QED
      BY <1>1, <2>1, <3>2, <3>3 DEF Core, SignersEnded, ProbesHold, SignerShows
  <2>3. SignersOnTheirNetwork'
    BY <1>1, <2>1 DEF Core, SignersOnTheirNetwork
  <2>4. \A x : Usable(x, extension, script) => Usable(x, extension', script')
    BY DEF UsableGrows, Usable
  <2>5. CallsGoOn'
    BY <1>1, <2>1, <2>4 DEF Core, CallsGoOn
  <2> QED
    BY <2>2, <2>3, <2>5 DEF Core
<1>3. ShownIsListed'
  BY ListedKeeps
<1>4. QuitHolds'
  BY <1>1 DEF QuitHolds
<1> QED
  BY <1>2, <1>3, <1>4 DEF WInv

\* ScriptSettles, ExtensionInjected and OtherTab.
LEMMA OutsideSteps ==
    ASSUME WInv, ScriptSettles \/ ExtensionInjected \/ OtherTab
    PROVE  WInv'
<1>1. SideType
  BY DEF WInv
<1>2. CASE ScriptSettles
  <2>1. UsableGrows /\ SideType' /\ session' \in {session, NONE}
    BY <1>1, <1>2 DEF ScriptSettles, pageVars, UsableGrows, SideType, gen
  <2> QED
    BY <1>2, <2>1, SideStep DEF ScriptSettles, pageVars
<1>3. CASE ExtensionInjected
  <2>1. UsableGrows /\ SideType'
    BY <1>1, <1>3, Room DEF ExtensionInjected, Event, pageVars, UsableGrows, SideType, gen
  <2> QED
    BY <1>3, <2>1, SideStep DEF ExtensionInjected, pageVars
<1>4. CASE OtherTab
  <2>1. session' \in AllSessions \union {NONE} /\ UsableGrows
    BY <1>4, RememberedAssumption DEF OtherTab, UsableGrows
  <2>2. /\ available' \in {available, detectWallets}
        /\ available' \in [freighter : BOOLEAN, albedo : BOOLEAN, loadFailed : BOOLEAN]
    BY <1>1, <1>4, Refreshed DEF OtherTab, SideType
  <2>3. SideType'
    BY <1>1, <1>4, <2>1, <2>2, Room DEF OtherTab, Event, pageVars, SideType, gen
  <2> QED
    BY <1>4, <2>1, <2>2, <2>3, SideStep DEF OtherTab, pageVars
<1> QED
  BY <1>2, <1>3, <1>4

\* Resume, connectWallet and connectNow.
LEMMA WalletCalls ==
    ASSUME WInv, NEW w \in WALLET_NAMES, Resume \/ connectWallet(w) \/ connectNow(w)
    PROVE  WInv'
<1>1. Core /\ SideType
  BY DEF WInv
<1>2. CASE Resume
  <2> DEFINE g == Head(waiting)
  <2>1. /\ waiting # <<>> /\ ~due /\ connect("albedo", g, "connectWallet", FALSE)
        /\ waiting' = Tail(waiting)
        /\ UNCHANGED <<env, nets, chosen, adapter, session, restoring, due, script,
                       watched, extension, available, events>>
    BY <1>2 DEF Resume, pageVars
  <2>2. /\ g \in 1..gen /\ waiting' \in Seq(1..gen) /\ Len(waiting') = Len(waiting) - 1
        /\ Len(waiting) > 0 /\ gen' = gen
    BY <2>1, Room DEF gen
  <2>3. attempt < MaxAttempts
    BY <2>1, <2>2, Room
  <2>4. UsableGrows /\ "albedo" \in WALLET_NAMES
    BY <2>1 DEF UsableGrows, WALLET_NAMES
  <2> HIDE DEF g
  <2>5. Core' /\ ShownIsListed' /\ QuitHolds' /\ attempt' = attempt + 1
    BY <2>1, <2>2, <2>3, <2>4, ConnectStep
  <2>6. /\ attempt' + Len(waiting') + (IF due' THEN 1 ELSE 0) + events' <= MaxAttempts
        /\ gen' + events' <= MaxClients
    BY <2>1, <2>2, <2>5, Room
  <2>7. SideType'
    BY <1>1, <2>1, <2>2, <2>6 DEF SideType
  <2> QED
    BY <2>5, <2>7 DEF WInv
<1>3. ASSUME Event PROVE ~due /\ events > 0 /\ events' = events - 1 /\ events' \in Nat
                         /\ attempt < MaxAttempts
  BY <1>3, Room DEF Event
<1>4. CASE connectNow(w)
  <2>1. /\ Event /\ connect(w, gen, "connect", TRUE)
        /\ UNCHANGED <<env, nets, chosen, adapter, session, restoring, due, script,
                       watched, extension, available, waiting>>
    BY <1>4 DEF connectNow, pageVars
  <2>2. UsableGrows /\ gen \in 1..gen
    BY <2>1, Room DEF UsableGrows
  <2>3. Core' /\ ShownIsListed' /\ QuitHolds' /\ attempt' = attempt + 1 /\ gen' = gen
    BY <1>3, <2>1, <2>2, ConnectStep
  <2>4. /\ attempt' + Len(waiting') + (IF due' THEN 1 ELSE 0) + events' <= MaxAttempts
        /\ gen' + events' <= MaxClients
    BY <1>3, <2>1, <2>3, Room
  <2>5. SideType'
    BY <1>1, <1>3, <2>1, <2>3, <2>4 DEF SideType
  <2> QED
    BY <2>3, <2>5 DEF WInv
<1>5. CASE connectWallet(w)
  <2>1. /\ Event /\ available' = Notified
        /\ UNCHANGED <<env, nets, chosen, adapter, session, restoring, due, watched, extension>>
    BY <1>5 DEF connectWallet, pageVars
  <2>2. /\ available' \in {available, detectWallets}
        /\ available' \in [freighter : BOOLEAN, albedo : BOOLEAN, loadFailed : BOOLEAN]
    BY <1>1, <2>1, Refreshed DEF SideType
  <2>3. CASE w = "albedo" /\ ~isAlbedoAvailable
    <3>1. /\ script' = loadAlbedoScript /\ waiting' = Append(waiting, gen)
          /\ quit' = FALSE /\ UNCHANGED <<attempt, active, signer, machine, task, crossed>>
      BY <1>5, <2>3 DEF connectWallet
    <3>2. UsableGrows /\ script' \in {"absent", "loading", "ready", "failed"}
      BY <1>1, <2>1, <3>1 DEF UsableGrows, loadAlbedoScript, SideType
    <3>3. /\ waiting' \in Seq(1..gen) /\ Len(waiting') = Len(waiting) + 1 /\ gen' = gen
      BY <2>1, <3>1, Room DEF gen
    <3>4. /\ attempt' + Len(waiting') + (IF due' THEN 1 ELSE 0) + events' <= MaxAttempts
          /\ gen' + events' <= MaxClients
      BY <1>3, <2>1, <3>1, <3>3, Room
    <3>5. SideType'
      BY <1>1, <1>3, <2>1, <2>2, <3>2, <3>3, <3>4 DEF SideType
    <3> QED
      BY <2>1, <2>2, <3>1, <3>2, <3>5, SideStep
  <2>4. CASE ~(w = "albedo" /\ ~isAlbedoAvailable)
    <3>1. connect(w, gen, "connectWallet", TRUE) /\ UNCHANGED <<script, waiting>>
      BY <1>5, <2>4 DEF connectWallet
    <3>2. UsableGrows /\ gen \in 1..gen
      BY <2>1, <3>1, Room DEF UsableGrows
    <3>3. Core' /\ ShownIsListed' /\ QuitHolds' /\ attempt' = attempt + 1 /\ gen' = gen
      BY <1>3, <2>1, <3>1, <3>2, ConnectStep
    <3>4. /\ attempt' + Len(waiting') + (IF due' THEN 1 ELSE 0) + events' <= MaxAttempts
          /\ gen' + events' <= MaxClients
      BY <1>3, <2>1, <3>1, <3>3, Room
    <3>5. SideType'
      BY <1>1, <1>3, <2>1, <2>2, <3>1, <3>3, <3>4 DEF SideType
    <3> QED
      BY <3>3, <3>5 DEF WInv
  <2> QED
    BY <2>3, <2>4
<1> QED
  BY <1>2, <1>4, <1>5

\* disconnect.
LEMMA DisconnectStep ==
    ASSUME WInv, disconnect
    PROVE  WInv'
<1>1. /\ Event /\ attempt' = attempt + 1 /\ active' = 0 /\ signer' = [signer EXCEPT ![gen] = 0]
      /\ adapter' = IF Previous = 0 THEN adapter ELSE [adapter EXCEPT ![Previous] = Scrubbed]
      /\ machine' = disconnectedState /\ session' = NONE /\ available' = Notified /\ quit' = TRUE
      /\ crossed' = {} /\ UNCHANGED <<env, nets, chosen, task, restoring, due, script, watched,
                                     extension, waiting>>
  BY Reduced DEF disconnect, pageVars
<1>2. Core /\ SideType /\ CoreType /\ gen' = gen
  BY <1>1 DEF WInv, Core, gen
<1>3. ~due /\ events > 0 /\ events' = events - 1 /\ events' \in Nat /\ attempt < MaxAttempts
  BY <1>1, Room DEF Event
<1>4. Previous # 0 => Previous \in 1..MaxAttempts
  <2>1. active \in 0..MaxAttempts /\ machine.adapter \in 0..MaxAttempts
        /\ signer[gen] \in 0..MaxAttempts /\ MaxAttempts \in Nat
    BY <1>2, Room DEF CoreType, Machine
  <2>2. Previous \in 0..MaxAttempts
    BY <2>1 DEF Previous
  <2> QED
    BY <2>1, <2>2
<1>5. Core' /\ signer'[gen'] = 0
  BY <1>1, <1>2, <1>3, <1>4, DisconnectCore
<1>6. /\ available' \in [freighter : BOOLEAN, albedo : BOOLEAN, loadFailed : BOOLEAN]
  BY <1>1, <1>2, Refreshed DEF SideType
<1>7. /\ attempt' + Len(waiting') + (IF due' THEN 1 ELSE 0) + events' <= MaxAttempts
      /\ gen' + events' <= MaxClients
  BY <1>1, <1>2, <1>3, Room
<1>8. SideType'
  BY <1>1, <1>2, <1>3, <1>6, <1>7 DEF SideType
<1>9. ShownIsListed' /\ QuitHolds'
  BY <1>1, <1>5 DEF ShownIsListed, QuitHolds, disconnectedState
<1> QED
  BY <1>5, <1>8, <1>9 DEF WInv

\* setNetwork.
LEMMA SwitchStep ==
    ASSUME WInv, NEW id \in Networks, setNetwork(id)
    PROVE  WInv'
<1>1. /\ Event /\ chosen' = id /\ nets' = Append(nets, id) /\ due' = env.restore
      /\ UNCHANGED <<env, signer, attempt, task, adapter, active, machine, session,
                     restoring, script, watched, extension, available, waiting, quit, crossed>>
  BY DEF setNetwork
<1>2. Core /\ SideType /\ QuitHolds
  BY DEF WInv
<1>3. ~due /\ events > 0 /\ events' = events - 1 /\ events' \in Nat /\ gen < MaxClients
  BY <1>1, Room DEF Event
<1>4. Core' /\ gen' = gen + 1 /\ signer'[gen'] = 0
  BY <1>1, <1>2, <1>3, SwitchCore
<1>5. due' \in BOOLEAN
  BY <1>1, <1>2, PagesAssumption DEF SideType, AllPages
<1>6. /\ attempt' + Len(waiting') + (IF due' THEN 1 ELSE 0) + events' <= MaxAttempts
      /\ gen' + events' <= MaxClients
  BY <1>1, <1>3, <1>4, <1>5, Room
<1>7. waiting' \in Seq(1..gen')
  <2>1. waiting \in Seq(1..gen) /\ gen \in Nat
    BY Room
  <2>2. 1..gen \subseteq 1..gen'
    BY <1>4, <2>1
  <2>3. waiting \in Seq(1..gen')
    BY <2>1, <2>2, SeqMonotonic
  <2> QED
    BY <1>1, <2>3
<1>8. SideType'
  BY <1>1, <1>2, <1>3, <1>5, <1>6, <1>7 DEF SideType
<1>9. ShownIsListed' /\ QuitHolds'
  BY <1>1, <1>2, <1>4 DEF WInv, ShownIsListed, QuitHolds
<1> QED
  BY <1>4, <1>8, <1>9 DEF WInv

\* Reload, and the first render.
LEMMA ReloadStep ==
    ASSUME WInv, Reload
    PROVE  WInv'
<1>1. /\ Event /\ nets' = <<Home>> /\ chosen' = NONE /\ signer' = [g \in 1..MaxClients |-> 0]
      /\ attempt' = 0 /\ active' = 0 /\ task' = [a \in 1..MaxAttempts |-> NoTask]
      /\ adapter' = [a \in 1..MaxAttempts |-> Scrubbed] /\ machine' = disconnectedState
      /\ session' = Kept(session) /\ restoring' = env.restore /\ due' = env.restore
      /\ script' = "absent" /\ watched' = FALSE
      /\ available' = [freighter |-> extension, albedo |-> FALSE, loadFailed |-> FALSE]
      /\ waiting' = <<>> /\ quit' = FALSE /\ crossed' = {} /\ UNCHANGED <<env, extension>>
  BY DEF Reload
<1>2. SideType
  BY DEF WInv
<1>3. Core' /\ gen' = 1 /\ machine'.status # "connected"
  <2>1. (/\ nets = <<Home>> /\ signer = [g \in 1..MaxClients |-> 0] /\ attempt = 0 /\ active = 0
         /\ task = [a \in 1..MaxAttempts |-> NoTask]
         /\ adapter = [a \in 1..MaxAttempts |-> Scrubbed] /\ machine = disconnectedState
         /\ quit = FALSE /\ crossed = {})' => (Core /\ gen = 1 /\ machine.status # "connected")'
    BY FreshCore, PTL
  <2> QED
    BY <1>1, <2>1
<1>4. ~due /\ events > 0 /\ events' = events - 1 /\ events' \in Nat
  BY <1>1, Room DEF Event
<1>5. due' \in BOOLEAN /\ restoring' \in BOOLEAN /\ extension \in BOOLEAN
  BY <1>1, <1>2, PagesAssumption DEF SideType, AllPages
<1>6. available' \in [freighter : BOOLEAN, albedo : BOOLEAN, loadFailed : BOOLEAN]
  BY <1>1, <1>5
<1>7. session' \in AllSessions \union {NONE}
  BY <1>1, <1>2 DEF Kept, SideType
<1>8. waiting' \in Seq(1..gen') /\ Len(waiting') = 0
  BY <1>1
<1>9. /\ attempt' + Len(waiting') + (IF due' THEN 1 ELSE 0) + events' <= MaxAttempts
      /\ gen' + events' <= MaxClients
  <2>1. MaxAttempts = MaxEvents + 1 /\ MaxClients = MaxEvents + 1 /\ MaxEvents \in Nat
    BY EventsAssumption DEF MaxAttempts, MaxClients
  <2>2. events' <= MaxEvents
    BY <1>4, <2>1, Room
  <2> QED
    BY <1>1, <1>3, <1>4, <1>5, <1>8, <2>1, <2>2
<1>10. SideType'
  BY <1>1, <1>2, <1>4, <1>5, <1>6, <1>7, <1>8, <1>9 DEF SideType
<1>11. ShownIsListed' /\ QuitHolds'
  BY <1>1, <1>3 DEF ShownIsListed, QuitHolds
<1> QED
  BY <1>3, <1>10, <1>11 DEF WInv

\* The provider starts in it.
LEMMA WalletStarts == WalletInit => WInv
<1> SUFFICES ASSUME WalletInit PROVE WInv
  OBVIOUS
<1>1. /\ env \in Pages /\ nets = <<Home>> /\ chosen = NONE
      /\ signer = [g \in 1..MaxClients |-> 0]
      /\ attempt = 0 /\ active = 0 /\ task = [a \in 1..MaxAttempts |-> NoTask]
      /\ adapter = [a \in 1..MaxAttempts |-> Scrubbed] /\ machine = disconnectedState
      /\ restoring = env.restore /\ due = env.restore
      /\ script = "absent" /\ watched = FALSE /\ available = detectWallets
      /\ waiting = <<>> /\ quit = FALSE /\ crossed = {} /\ events = env.events
  BY DEF WalletInit
<1>2. extension \in BOOLEAN
  <2>1. extension \in IF env.outside THEN BOOLEAN ELSE {TRUE}
    BY DEF WalletInit
  <2> QED
    BY <2>1
<1>3. session \in AllSessions \union {NONE}
  BY RememberedAssumption DEF WalletInit
<1>4. Core /\ gen = 1 /\ machine.status # "connected"
  BY <1>1, FreshCore
<1>5. due \in BOOLEAN /\ restoring \in BOOLEAN /\ events \in 0..MaxEvents
  BY <1>1, PagesAssumption DEF AllPages
<1>6. available \in [freighter : BOOLEAN, albedo : BOOLEAN, loadFailed : BOOLEAN]
  BY <1>1, <1>2 DEF detectWallets, isFreighterInstalled, isAlbedoAvailable
<1>7. waiting \in Seq(1..gen) /\ Len(waiting) = 0
  BY <1>1
<1>8. /\ attempt + Len(waiting) + (IF due THEN 1 ELSE 0) + events <= MaxAttempts
      /\ gen + events <= MaxClients /\ events \in Nat
  BY <1>1, <1>4, <1>5, <1>7, EventsAssumption DEF MaxAttempts, MaxClients
<1>9. SideType
  BY <1>1, <1>2, <1>3, <1>5, <1>6, <1>7, <1>8 DEF SideType
<1>10. ShownIsListed /\ QuitHolds
  BY <1>1, <1>4 DEF ShownIsListed, QuitHolds
<1> QED
  BY <1>4, <1>9, <1>10 DEF WInv

\* Every step of the wallet keeps it.
LEMMA WalletKeeps ==
    ASSUME WInv, WalletAnswers \/ WalletEvents \/ UNCHANGED walletVars
    PROVE  WInv'
<1>1. CASE WalletAnswers
  <2>1. "albedo" \in WALLET_NAMES
    BY DEF WALLET_NAMES
  <2> QED
    BY <1>1, <2>1, RejectedStep, AnsweredStep, ProbedStep, RestoreStep, OutsideSteps, WalletCalls
       DEF WalletAnswers
<1>2. CASE WalletEvents
  BY <1>2, OutsideSteps, WalletCalls, DisconnectStep, SwitchStep, ReloadStep
     DEF WalletEvents
<1>3. CASE UNCHANGED walletVars
  <2>1. /\ UNCHANGED <<env, nets, signer, attempt, active, task, adapter, machine, crossed>>
        /\ UNCHANGED <<chosen, session, restoring, due, script, watched, extension,
                       available, waiting, quit, events>>
    BY <1>3 DEF walletVars
  <2>2. gen' = gen /\ UsableGrows /\ SideType
    BY <2>1 DEF gen, UsableGrows, WInv
  <2>3. SideType'
    BY <2>1, <2>2 DEF SideType
  <2> QED
    BY <2>1, <2>2, <2>3, SideStep
<1> QED
  BY <1>1, <1>2, <1>3

----------------------------------------------------------------------------
(* The page *)

\* A step of the wallet leaves the hook alone.
LEMMA HookStutters == SInv /\ UNCHANGED submitVars => SInv'
<1> SUFFICES ASSUME SInv, UNCHANGED submitVars PROVE SInv'
  OBVIOUS
<1>1. UNCHANGED <<ledgerPoll, ui, mounted, runId, last, run, sent, blind, calls>>
  BY DEF submitVars
<1> QED
  BY <1>1 DEF SInv

\* Every step keeps the invariant.
LEMMA StepInvariant == SInv /\ [Next]_vars => SInv'
<1> SUFFICES ASSUME SInv, [Next]_vars PROVE SInv'
  OBVIOUS
<1>1. CASE UNCHANGED submitVars
  BY <1>1, HookStutters
<1>2. ASSUME NEW r \in 1..MaxCalls,
             \/ Simulated(r) \/ Signed(r) \/ Sent(r) \/ Polled(r) \/ PollTimer(r)
             \/ RetryTimer(r) \/ Settled(r)
      PROVE  SInv'
  BY <1>2, SimulatedSigned, SentStep, PolledStep, PollTimerStep, RetryStep, SettledStep
<1>3. CASE SubmitCalls(useWallet)
  BY <1>3, CallSteps
<1>4. CASE \E h \in DOMAIN sent : LedgerCloses(h)
  BY <1>4, LedgerClosesStep
<1> QED
  BY <1>1, <1>2, <1>3, <1>4 DEF Next, Answers, Events, SubmitAnswers, vars

\* The page starts in it.
LEMMA StartInvariant == Init => SInv
<1> SUFFICES ASSUME Init PROVE SInv
  OBVIOUS
<1>1. /\ ledgerPoll \in BOOLEAN /\ ui = Idle /\ mounted = TRUE /\ runId = 0 /\ last = "none"
      /\ run = [r \in 1..MaxCalls |-> NoRun] /\ sent = <<>> /\ blind = {}
      /\ calls \in 0..MaxCalls /\ MaxCalls \in Nat
  BY BoundsAssumption DEF Init, SubmitInit
<1>2. TotalAllowedAttempts \in Nat /\ 0 \in 0..(MaxPolls - 1)
  BY BoundsAssumption DEF TotalAllowedAttempts
<1>3. NoRun \in Run /\ NoRun.at = "none" /\ NoRun.kind = "none"
  BY <1>2 DEF NoRun, Run, NoHash
<1>4. \A r : LiveIn(sent, r) = {}
  BY <1>1 DEF LiveIn
<1>5. \A r \in 1..MaxCalls : RunOK(r, run[r], sent, blind)
  BY <1>1, <1>3, <1>4 DEF RunOK, Polling
<1>6. sent \in Seq(TxRecord) /\ Len(sent) = 0
  BY <1>1
<1>7. UiOK(ui, sent, ledgerPoll, last) /\ ui.status # "confirmed"
  BY <1>1, <1>6, IdleOK
<1>8. run \in [1..MaxCalls -> Run]
  BY <1>1, <1>3
<1> QED
  BY <1>1, <1>5, <1>6, <1>7, <1>8 DEF SInv

\* A submission shown as confirmed was applied by the ledger, unless nobody
\* could be asked for a hash or send returned an object without `success` and
\* the action has no pollStatus, and it lands once unless its run lost sight of
\* a transaction: for any number of calls, retries and polls, whatever submit,
\* retry, refetch, reset, unmount, the timers and the network overlap
\* (useTransactionSubmission).
THEOREM SubmissionsStayHonest == Spec => []SubmissionsLandOnce
<1>1. SInv => SubmissionsLandOnce
  BY SInvIs, OneLands DEF SubmissionsLandOnce
<1> QED
  BY <1>1, StartInvariant, StepInvariant, PTL DEF Spec

\* The hook's state has its types throughout.
THEOREM SubmitTypeCorrect == Spec => []SubmitTypeOK
<1>1. SInv => SubmitTypeOK
  BY SInvIs
<1> QED
  BY <1>1, StartInvariant, StepInvariant, PTL DEF Spec

ShowsOwn == (ui' # ui /\ calls' = calls) =>
               mounted /\ runId' = runId /\ runId # 0 /\ run'[runId] # run[runId]

\* What a step of a run shows, it shows of the current one.
LEMMA StepShows ==
    ASSUME SInv, NEW r \in 1..MaxCalls, NEW n, NEW u, Step(r, n, u), runId' = runId,
           u = ui \/ n.at # run[r].at
    PROVE  ShowsOwn
<1>1. run \in [1..MaxCalls -> Run]
  BY DEF SInv
<1>2. CASE Current(r)
  <2>1. mounted /\ r = runId /\ run'[r] = n /\ ui' = u
    BY <1>1, <1>2 DEF Step, Current
  <2>2. n.at # run[r].at => n # run[r]
    OBVIOUS
  <2> QED
    BY <2>1, <2>2 DEF ShowsOwn
<1>3. CASE ~Current(r)
  BY <1>3 DEF Step, ShowsOwn
<1> QED
  BY <1>2, <1>3

\* The catch block is no exception.
LEMMA CaughtShows ==
    ASSUME SInv, NEW r \in 1..MaxCalls, NEW terminal \in BOOLEAN, Caught(r, terminal),
           runId' = runId, run[r].at # "over"
    PROVE  ShowsOwn
<1>1. Over.at = "over"
  BY DEF Over, NoRun
<1>2. CASE run[r].attempt < TotalAllowedAttempts /\ ~terminal
  BY <1>2, StepShows DEF Caught
<1>3. CASE ~(run[r].attempt < TotalAllowedAttempts /\ ~terminal)
  <2> DEFINE u == [ui EXCEPT !.status = "failed", !.error = TRUE]
  <2>1. Step(r, Over, u)
    BY <1>3 DEF Caught
  <2> HIDE DEF u
  <2> QED
    BY <1>1, <2>1, StepShows
<1> QED
  BY <1>2, <1>3

\* Nor is any answer.
LEMMA AnswerShows ==
    ASSUME SInv, NEW r \in 1..MaxCalls,
           \/ Simulated(r) \/ Signed(r) \/ Sent(r) \/ Polled(r) \/ PollTimer(r)
           \/ RetryTimer(r) \/ Settled(r)
    PROVE  ShowsOwn
<1>1. runId' = runId
  BY DEF Simulated, Signed, Sent, Polled, PollTimer, RetryTimer, Settled
<1>2. run[r] \in Run /\ Over.at = "over"
  BY DEF SInv, Over, NoRun
<1>3. \A y : [run[r] EXCEPT !.at = y].at = y
  BY <1>2 DEF Run
<1>4. ASSUME NEW h, NEW by, Confirmed(r, h, by), run[r].at # "over" PROVE ShowsOwn
  <2> DEFINE u == [ui EXCEPT !.status = "confirmed", !.hash = h, !.data = h,
                             !.error = FALSE, !.by = by]
  <2>1. Step(r, Over, u)
    BY <1>4 DEF Confirmed
  <2> HIDE DEF u
  <2> QED
    BY <1>1, <1>2, <1>4, <2>1, StepShows
<1>5. CASE Simulated(r)
  <2>1. run[r].at = "simulate"
    BY <1>5 DEF Simulated
  <2>2. ASSUME NEW n, NEW u, n.at = "sign", Step(r, n, u) PROVE ShowsOwn
    BY <1>1, <2>1, <2>2, StepShows
  <2>3. CASE \E terminal \in isTerminalTransactionError : Caught(r, terminal)
    BY <1>1, <2>1, <2>3, CaughtShows DEF isTerminalTransactionError
  <2> QED
    BY <1>3, <1>5, <2>2, <2>3 DEF Simulated
<1>6. CASE Signed(r)
  <2>1. run[r].at = "sign"
    BY <1>6 DEF Signed
  <2>2. ASSUME NEW n, NEW u, n.at = "send", Step(r, n, u) PROVE ShowsOwn
    BY <1>1, <2>1, <2>2, StepShows
  <2>3. CASE \E terminal \in isTerminalTransactionError : Caught(r, terminal)
    BY <1>1, <2>1, <2>3, CaughtShows DEF isTerminalTransactionError
  <2> QED
    BY <1>3, <1>6, <2>2, <2>3 DEF Signed
<1>12. ASSUME Returns(r), run[r].at \in {"simulate", "send"} PROVE ShowsOwn
  <2>1. CASE \E by : Confirmed(r, Len(sent'), by)
    BY <1>4, <1>12, <2>1
  <2>2. ASSUME NEW n, NEW u, n.at \in {"wait", "over"}, Step(r, n, u) PROVE ShowsOwn
    BY <1>1, <1>12, <2>2, StepShows
  <2> DEFINE n == [run[r] EXCEPT !.at = "wait"]
             u == [ui EXCEPT !.hash = Len(sent')]
             v == [ui EXCEPT !.status = "failed", !.error = TRUE, !.hash = Len(sent')]
  <2>3. n.at = "wait"
    BY <1>3
  <2>4. \/ Confirmed(r, Len(sent'), "answer") \/ Step(r, n, u) \/ Step(r, Over, v)
    BY <1>12 DEF Returns
  <2> HIDE DEF n, u, v
  <2> QED
    BY <1>2, <2>1, <2>2, <2>3, <2>4
<1>7. CASE Sent(r)
  <2>1. run[r].at = "send"
    BY <1>7 DEF Sent
  <2>2. ASSUME NEW n, NEW u, n.at = "poll", Step(r, n, u) PROVE ShowsOwn
    BY <1>1, <2>1, <2>2, StepShows
  <2>3. [run[r] EXCEPT !.at = "poll", !.hash = Len(sent')].at = "poll"
    BY <1>2 DEF Run
  <2>4. CASE \E terminal \in BOOLEAN : Caught(r, terminal)
    BY <1>1, <2>1, <2>4, CaughtShows
  <2>5. CASE Confirmed(r, Len(sent'), "object")
    BY <1>4, <2>1, <2>5
  <2>6. CASE Returns(r)
    BY <1>12, <2>1, <2>6
  <2> QED
    BY <1>7, <2>2, <2>3, <2>4, <2>5, <2>6 DEF Sent, isTerminalTransactionError
<1>8. CASE Polled(r)
  <2>1. run[r].at = "poll"
    BY <1>8 DEF Polled
  <2>2. CASE \E terminal \in BOOLEAN : Caught(r, terminal)
    BY <1>1, <2>1, <2>2, CaughtShows
  <2>3. CASE Confirmed(r, run[r].hash, "answer") \/ Confirmed(r, run[r].hash, "noPoller")
    BY <1>4, <2>1, <2>3
  <2>4. ASSUME NEW n, Step(r, n, ui) PROVE ShowsOwn
    BY <1>1, <2>4, StepShows
  <2> QED
    BY <1>8, <2>2, <2>3, <2>4 DEF Polled, GiveUp
<1>9. CASE PollTimer(r)
  <2> DEFINE n == [run[r] EXCEPT !.at = "poll"]
  <2>1. Step(r, n, ui)
    BY <1>9 DEF PollTimer
  <2> HIDE DEF n
  <2> QED
    BY <1>1, <2>1, StepShows
<1>10. CASE RetryTimer(r)
  <2> DEFINE n == NextAttempt(r)
             u == [ui EXCEPT !.status = "simulating", !.retries = run[r].attempt]
  <2>1. Step(r, n, u) /\ run[r].at = "wait"
    BY <1>10 DEF RetryTimer
  <2>2. n.at = "simulate"
    BY <1>2 DEF NextAttempt, Run
  <2> HIDE DEF n, u
  <2> QED
    BY <1>1, <2>1, <2>2, StepShows
<1>11. CASE Settled(r)
  <2>1. run[r].at = "simulate"
    BY <1>11 DEF Settled
  <2>2. CASE \E terminal \in BOOLEAN : Caught(r, terminal)
    BY <1>1, <2>1, <2>2, CaughtShows
  <2>3. CASE Returns(r)
    BY <1>12, <2>1, <2>3
  <2> QED
    BY <1>11, <2>2, <2>3 DEF Settled, isTerminalTransactionError
<1> QED
  BY <1>5, <1>6, <1>7, <1>8, <1>9, <1>10, <1>11

\* What is shown changes only by a call or by a step of the run that holds the
\* current number, which moves on as it shows it: an answer that comes to a
\* superseded run is never shown.
THEOREM SupersededRunsAreSilent == Spec => OnlyTheCurrentRunShows
<1>1. ASSUME SInv, [Next]_vars PROVE [ShowsOwn]_submitVars
  <2>1. CASE UNCHANGED submitVars
    BY <2>1
  <2>2. ASSUME NEW r \in 1..MaxCalls,
               \/ Simulated(r) \/ Signed(r) \/ Sent(r) \/ Polled(r) \/ PollTimer(r)
               \/ RetryTimer(r) \/ Settled(r)
        PROVE  ShowsOwn
    BY <1>1, <2>2, AnswerShows
  <2>3. CASE SubmitCalls(useWallet)
    <3>1. calls' = calls - 1 /\ calls \in Nat
      BY <1>1, <2>3 DEF SInv, SubmitCalls, submit, retry, refetch, reset, unmount, Call
    <3> QED
      BY <3>1 DEF ShowsOwn
  <2>4. CASE \E h \in DOMAIN sent : LedgerCloses(h)
    BY <2>4 DEF LedgerCloses, ShowsOwn
  <2> QED
    BY <1>1, <2>1, <2>2, <2>3, <2>4 DEF Next, Answers, Events, SubmitAnswers, vars
<1>2. [ShowsOwn]_submitVars <=> [(ui' # ui /\ calls' = calls) =>
          mounted /\ runId' = runId /\ runId # 0 /\ run'[runId] # run[runId]]_submitVars
  BY DEF ShowsOwn
<1> QED
  BY <1>1, <1>2, StartInvariant, StepInvariant, PTL DEF Spec, OnlyTheCurrentRunShows

----------------------------------------------------------------------------
(* The wallet, on the page *)

\* Every step of the page keeps the wallet's invariant.
LEMMA PageKeepsWallet == WInv /\ [Next]_vars => WInv'
<1> SUFFICES ASSUME WInv, [Next]_vars PROVE WInv'
  OBVIOUS
<1>1. WalletAnswers \/ WalletEvents \/ UNCHANGED walletVars
  BY DEF Next, Answers, Events, vars
<1> QED
  BY <1>1, WalletKeeps

\* What can sign is on the network the page shows, a wallet shown as connected
\* is one the page lists, and what can sign is what the page shows until a
\* superseded probe or a call of a client that a network switch replaced goes
\* on out of turn: for any networks and any number of events, whatever
\* connects, disconnects, network switches, probes, reloads and restores
\* overlap (WalletProvider, BcForgeProvider).
THEOREM SignerStaysShown == Spec => []SignerIsShown
<1>1. WInv /\ SInv => SignerIsShown
  BY WInvIs, SInvIs DEF SignerIsShown, TypeOK
<1>2. Init => WInv
  BY WalletStarts DEF Init
<1> QED
  BY <1>1, <1>2, PageKeepsWallet, StartInvariant, StepInvariant, PTL DEF Spec

\* After a disconnect nothing late brings the wallet, its signer or its session
\* back but the answer of a hardware probe and a connectWallet that waited for
\* the Albedo script when the user disconnected.
THEOREM DisconnectsHold == Spec => []DisconnectHolds
<1>1. WInv => DisconnectHolds
  BY WInvIs
<1>2. Init => WInv
  BY WalletStarts DEF Init
<1> QED
  BY <1>1, <1>2, PageKeepsWallet, PTL DEF Spec
=============================================================================
