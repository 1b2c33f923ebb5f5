---------------------------- MODULE LedgerProofs ----------------------------
(***************************************************************************)
(* What every store that keeps the promise of Ledger can be relied on for.  *)
(***************************************************************************)
EXTENDS Ledger, TLAPS

Typed == issued \in Nat /\ \A j \in DOMAIN ledger : \A i \in DOMAIN ledger[j] : ledger[j][i] \in Entry

Inv == Typed /\ Issued /\ Unique

\* Of one entry: a step other than a grant leaves it with the attempt it had or none,
\* its fence as it was, and never newly held.
Follows(e, f) ==
  /\ f \in Entry
  /\ f.attempt \in {0, e.attempt} /\ f.fence = e.fence
  /\ f.phase = "held" => f = e

LEMMA ReleasedFollows ==
  ASSUME NEW e \in Entry, NEW f, Released(e, f) \/ Reported(e, f)
  PROVE  Follows(e, f)
<1>1. CASE f = e
  BY <1>1 DEF Follows
<1>2. CASE Lapsed(e, f)
  BY <1>2 DEF Lapsed, Moved, Follows, Entry
<1>3. CASE GivenUp(e, f)
  <2>1. PICK a \in {0, e.attempt} : f = Moved(e, "done", a)
    BY <1>3 DEF GivenUp
  <2>2. a \in Nat
    BY <2>1 DEF Entry
  <2> QED  BY <2>1, <2>2 DEF Moved, Follows, Entry
<1>4. CASE Reported(e, f)
  <2>1. PICK r \in Results : f = [Moved(e, "done", e.attempt) EXCEPT !.result = r]
    BY <1>4 DEF Reported
  <2> QED  BY <2>1 DEF Moved, Follows, Entry
<1> QED  BY <1>1, <1>2, <1>3, <1>4 DEF Released

LEMMA GrantedFresh ==
  ASSUME NEW e \in Entry, NEW f, Granted(e, f), issued \in Nat
  PROVE  f \in Entry /\ f.attempt = issued + 1 /\ f.fence = e.fence + 1
BY DEF Granted, Moved, Entry

\* Every entry of the next state follows an old one, is the one granted, or is fresh.
Steps(j, i) ==
  /\ issued' \in Nat /\ issued <= issued'
  /\ \A k \in DOMAIN ledger' : \A m \in DOMAIN ledger'[k] :
       \/ /\ k \in DOMAIN ledger /\ m \in DOMAIN ledger[k]
          /\ Follows(ledger[k][m], ledger'[k][m])
       \/ /\ k = j /\ m = i /\ k \in DOMAIN ledger /\ m \in DOMAIN ledger[k]
          /\ issued' = issued + 1
          /\ ledger'[k][m] \in Entry
          /\ ledger'[k][m].attempt = issued'
          /\ ledger'[k][m].fence = ledger[k][m].fence + 1
       \/ ledger'[k][m] \in Entry /\ Fresh(ledger'[k][m])

LEMMA StepsKeep ==
  ASSUME Inv, NEW j, NEW i, Steps(j, i)
  PROVE  Inv'
<1> USE DEF Inv, Typed
<1>1. Typed'
  BY DEF Steps, Follows
<1>2. Issued'
  <2> SUFFICES ASSUME NEW k \in DOMAIN ledger', NEW m \in DOMAIN ledger'[k]
               PROVE  /\ ledger'[k][m].attempt \in 0..issued'
                      /\ ledger'[k][m].fence \in 0..issued'
                      /\ ledger'[k][m].phase = "held"
                           => ledger'[k][m].attempt # 0 /\ ledger'[k][m].fence # 0
    BY DEF Issued
  <2> DEFINE e == ledger[k][m]
             f == ledger'[k][m]
  <2>1. CASE k \in DOMAIN ledger /\ m \in DOMAIN ledger[k] /\ Follows(e, f)
    <3>1. e.attempt \in 0..issued /\ e.fence \in 0..issued
          /\ (e.phase = "held" => e.attempt # 0 /\ e.fence # 0)
      BY <2>1 DEF Issued
    <3> QED  BY <2>1, <3>1 DEF Steps, Follows
  <2>2. CASE /\ k \in DOMAIN ledger /\ m \in DOMAIN ledger[k]
             /\ issued' = issued + 1
             /\ f.attempt = issued' /\ f.fence = e.fence + 1
    <3>1. e.fence \in 0..issued
      BY <2>2 DEF Issued
    <3> QED  BY <2>2, <3>1 DEF Steps
  <2>3. CASE Fresh(f)
    BY <2>3 DEF Fresh, Steps
  <2> QED  BY <2>1, <2>2, <2>3 DEF Steps
<1>3. Unique'
  <2> SUFFICES ASSUME NEW k \in DOMAIN ledger', NEW m \in DOMAIN ledger'[k],
                      NEW l \in DOMAIN ledger', NEW n \in DOMAIN ledger'[l],
                      ledger'[k][m].attempt # 0,
                      ledger'[k][m].attempt = ledger'[l][n].attempt
               PROVE  k = l /\ m = n
    BY DEF Unique
  <2> DEFINE Old(a, b) == /\ a \in DOMAIN ledger /\ b \in DOMAIN ledger[a]
                          /\ ledger'[a][b].attempt = ledger[a][b].attempt
                          /\ ledger[a][b].attempt \in 0..issued
             New(a, b) == a = j /\ b = i /\ ledger'[a][b].attempt = issued + 1
  <2>1. ASSUME NEW a \in DOMAIN ledger', NEW b \in DOMAIN ledger'[a], ledger'[a][b].attempt # 0
        PROVE  Old(a, b) \/ New(a, b)
    BY <2>1 DEF Steps, Follows, Fresh, Issued
  <2>2. (Old(k, m) \/ New(k, m)) /\ (Old(l, n) \/ New(l, n))
    BY <2>1
  <2>3. CASE Old(k, m) /\ Old(l, n)
    <3>1. ledger[k][m].attempt # 0 /\ ledger[k][m].attempt = ledger[l][n].attempt
      BY ZenonT(30), <2>3
    <3> QED  BY <2>3, <3>1, Zenon DEF Unique
  <2> QED  BY <2>2, <2>3
<1> QED  BY <1>1, <1>2, <1>3

LEMMA NextKeeps == Inv /\ [Next]_vars => Inv'
<1> SUFFICES ASSUME Inv, [Next]_vars PROVE Inv'
  OBVIOUS
<1>0. Typed
  BY DEF Inv
<1>1. ASSUME NEW j \in DOMAIN ledger', Post(j) PROVE Inv'
  <2>1. Steps(0, 0)
    <3> SUFFICES ASSUME NEW k \in DOMAIN ledger', NEW m \in DOMAIN ledger'[k]
                 PROVE  \/ /\ k \in DOMAIN ledger /\ m \in DOMAIN ledger[k]
                           /\ Follows(ledger[k][m], ledger'[k][m])
                        \/ ledger'[k][m] \in Entry /\ Fresh(ledger'[k][m])
      BY <1>0, <1>1 DEF Steps, Post, Typed
    <3>1. CASE k = j
      BY <1>1, <3>1 DEF Post, Fresh, Entry
    <3>2. CASE k # j
      BY <1>0, <1>1, <3>2, ReleasedFollows DEF Post, AllReleased, SameTasks, Typed
    <3> QED  BY <3>1, <3>2
  <2> QED  BY <2>1, StepsKeep
<1>2. CASE Release
  <2>1. Steps(0, 0)
    BY <1>0, <1>2, ReleasedFollows DEF Release, AllReleased, SameTasks, Typed, Steps
  <2> QED  BY <2>1, StepsKeep
<1>3. ASSUME NEW j \in DOMAIN ledger, NEW i \in DOMAIN ledger[j], Grant(j, i) PROVE Inv'
  <2>1. Steps(j, i)
    BY <1>0, <1>3, ReleasedFollows, GrantedFresh DEF Grant, SameTasks, Typed, Steps
  <2> QED  BY <2>1, StepsKeep
<1>4. ASSUME NEW j \in DOMAIN ledger, NEW i \in DOMAIN ledger[j], Report(j, i) PROVE Inv'
  <2>1. Steps(j, i)
    BY <1>0, <1>4, ReleasedFollows DEF Report, SameTasks, Typed, Steps
  <2> QED  BY <2>1, StepsKeep
<1>5. CASE UNCHANGED vars
  BY <1>5 DEF vars, Inv, Typed, Issued, Unique
<1> QED  BY <1>1, <1>2, <1>3, <1>4, <1>5 DEF Next

\* A store that keeps the ledger never has one attempt id on two tasks, for any number
\* of jobs, tasks and attempts.
THEOREM LedgerUnique == Spec => []Unique
<1>1. Init => Inv
  BY DEF Init, Inv, Typed, Issued, Unique
<1>2. Inv => Unique
  BY DEF Inv
<1> QED  BY <1>1, <1>2, NextKeeps, PTL DEF Spec

=============================================================================
