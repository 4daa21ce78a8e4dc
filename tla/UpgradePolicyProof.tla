-------------------------- MODULE UpgradePolicyProof --------------------------
(***************************************************************************)
(* The selection of UpgradePolicy for any versions, archives and number    *)
(* of candidates.                                                          *)
(*                                                                         *)
(* The argument: after each iteration best is what apt would select among  *)
(* the candidates seen so far and the installed version.  Only then is the *)
(* security mark right: what ties with best was seen after it was chosen,  *)
(* and nothing that ties with a better candidate was seen before it.       *)
(***************************************************************************)
EXTENDS UpgradePolicy, TLAPS

Seen == {candidates[i] : i \in 1 .. considered} \cup {AsCandidate(installed)}

\* best is the selection among the offers in S.
Selection(S) ==
  /\ \E o \in S : Allowed(o) /\ sameCandidate(o, best)
  /\ \A o \in S : Allowed(o) => ~isBetterCandidate(o, best)
  /\ best.Security <=>
       \E o \in S : Allowed(o) /\ sameCandidate(o, best) /\ o.Security

LoopInv ==
  /\ considered <= Len(candidates)
  /\ pc # "parse" /\ installed.Version # NoVersion => Selection(Seen)
  /\ pc = "parse" => considered = 0 /\ best = AsCandidate(installed)
  /\ Decided => considered = Len(candidates)
                  /\ counted = {count \in Counts : FallsUnder(count)}

IInv == TypeOK /\ LoopInv

----------------------------------------------------------------------------

LEMMA CandidateTypes ==
  /\ \A c \in Candidate : c.Version \in Nat /\ c.Priority \in Nat
                            /\ c.Security \in BOOLEAN /\ c.Backports \in BOOLEAN
  /\ \A pkg \in Installed : pkg.Version \in Nat /\ AsCandidate(pkg) \in Candidate
<1>1. Priorities \subseteq Nat /\ installedPackagePriority \in Priorities
  BY ArchivesAssumption
     DEF Priorities, installedPackagePriority, normalizedPackagePriority,
         defaultPackagePriority
<1>2. Versions \cup {NoVersion} \subseteq Nat
  BY VersionsAssumption DEF NoVersion
<1>3. \A c \in Candidate : c.Version \in Nat /\ c.Priority \in Nat
                            /\ c.Security \in BOOLEAN /\ c.Backports \in BOOLEAN
  BY <1>1, <1>2 DEF Candidate
<1>4. \A pkg \in Installed : pkg.Version \in Nat
  BY <1>2 DEF Installed
<1>5. \A pkg \in Installed : AsCandidate(pkg) \in Candidate
  BY <1>1 DEF Installed, AsCandidate, Candidate
<1>6. QED
  BY <1>3, <1>4, <1>5

\* A candidate that was parsed has the priority it is compared by.
LEMMA AlreadyRanked ==
  ASSUME NEW c \in Candidate
  PROVE  Ranked(c) = c
<1>1. \A priority \in Priorities : normalizedPackagePriority(priority) = priority
  BY DEF Priorities, normalizedPackagePriority, defaultPackagePriority,
         installedPackagePriority
<1>2. QED
  BY <1>1 DEF Candidate, Ranked

LEMMA InitTypeOK == Init => TypeOK
BY CandidateTypes DEF Init, TypeOK, NoOffers, Architectures

LEMMA ImprovedType ==
  ASSUME TypeOK, NEW c \in Candidate
  PROVE  Improved(c) \in Candidate
<1>1. best \in Candidate
  BY DEF TypeOK
<1>2. CASE Improved(c) = best
  BY <1>1, <1>2
<1>3. CASE Improved(c) = c
  BY <1>3
<1>4. CASE Improved(c) = [best EXCEPT !.Security =
                            @ \/ (sameCandidate(c, best) /\ c.Security)]
  <2>1. (best.Security \/ (sameCandidate(c, best) /\ c.Security)) \in BOOLEAN
    OBVIOUS
  <2>2. QED
    BY <1>1, <1>4, <2>1 DEF Candidate
<1>5. QED
  BY <1>2, <1>3, <1>4 DEF Improved

LEMMA NextTypeOK == TypeOK /\ [Next]_vars => TypeOK'
<1> SUFFICES ASSUME TypeOK, [Next]_vars PROVE TypeOK'
  OBVIOUS
<1> USE DEF TypeOK
<1>1. ASSUME NEW arch \in Architectures, NEW v \in Versions, NEW a \in Archives,
             Parse(arch, v, a)
      PROVE  TypeOK'
  <2>1. [Version |-> v, Priority |-> normalizedPackagePriority(a.Priority),
         Security |-> a.Security, Backports |-> a.Backports] \in Candidate
    BY ArchivesAssumption DEF Candidate, Priorities
  <2>2. QED
    BY <1>1, <2>1 DEF Parse
<1>2. CASE SkipPackage
  BY <1>2 DEF SkipPackage
<1>3. CASE BeginPolicy
  <2>1. packageCandidates \in Seq(Candidate)
    BY DEF packageCandidates, Installed, Architectures
  <2>2. QED
    BY <1>3, <2>1 DEF BeginPolicy
<1>4. CASE Consider
  <2>1. candidates[considered + 1] \in Candidate
    BY <1>4 DEF Consider
  <2>2. QED
    BY <1>4, <2>1, ImprovedType, AlreadyRanked DEF Consider
<1>5. CASE Count
  BY <1>5 DEF Count
<1>6. CASE NextPackage
  BY <1>6, CandidateTypes DEF NextPackage, NoOffers, Architectures
<1>7. CASE UNCHANGED vars
  BY <1>7 DEF vars
<1>8. QED
  BY <1>1, <1>2, <1>3, <1>4, <1>5, <1>6, <1>7 DEF Next

\* Every variable keeps its type; the best candidate is one that was offered or
\* the installed package with the priority apt gives it.
THEOREM TypeCorrect == Spec => []TypeOK
BY InitTypeOK, NextTypeOK, PTL DEF Spec
----------------------------------------------------------------------------

\* An offer that is considered extends what has been seen.
LEMMA SeenGrows ==
  ASSUME TypeOK, considered < Len(candidates),
         considered' = considered + 1, UNCHANGED <<installed, candidates>>
  PROVE  Seen' = Seen \cup {candidates[considered + 1]}
<1>1. 1 .. considered' = 1 .. considered \cup {considered + 1}
  BY DEF TypeOK
<1>2. QED
  BY <1>1 DEF Seen, AsCandidate

LEMMA SeenTypes == TypeOK /\ considered <= Len(candidates) => Seen \subseteq Candidate
<1> SUFFICES ASSUME TypeOK, considered <= Len(candidates) PROVE Seen \subseteq Candidate
  OBVIOUS
<1>1. \A i \in 1 .. considered : candidates[i] \in Candidate
  BY DEF TypeOK
<1>2. AsCandidate(installed) \in Candidate
  BY CandidateTypes DEF TypeOK
<1>3. QED
  BY <1>1, <1>2 DEF Seen

\* An iteration of the loop keeps best the selection of what has been seen.
LEMMA ConsiderSelects ==
  ASSUME TypeOK, considered <= Len(candidates), Selection(Seen), Consider
  PROVE  Selection(Seen)'
<1> DEFINE c == candidates[considered + 1]
<1>1. c \in Candidate /\ best \in Candidate /\ Seen \subseteq Candidate
  BY SeenTypes DEF TypeOK, Consider
<1>2. \A o \in Seen \cup {c, best} :
        o.Version \in Nat /\ o.Priority \in Nat /\ o.Security \in BOOLEAN
  BY <1>1, CandidateTypes
<1>3. Seen' = Seen \cup {c}
  BY SeenGrows DEF Consider
<1>4. best' = Improved(c) /\ installed' = installed
  BY <1>1, AlreadyRanked DEF Consider
<1> HIDE DEF c
<1> USE DEF Selection, Allowed, isBetterCandidate, sameCandidate
<1>5. CASE ~Allowed(c)
  <2>1. best' = best
    BY <1>4, <1>5 DEF Improved
  <2>2. QED
    BY <1>3, <1>4, <1>5, <2>1
<1>6. CASE Allowed(c) /\ isBetterCandidate(c, best)
  <2>1. best' = c
    BY <1>4, <1>6 DEF Improved
  <2>2. \A o \in Seen : Allowed(o) => ~isBetterCandidate(o, c) /\ ~sameCandidate(o, c)
    BY <1>2, <1>6
  <2>3. ~isBetterCandidate(c, c) /\ sameCandidate(c, c)
    BY <1>2
  <2>4. QED
    BY <1>2, <1>3, <1>4, <1>6, <2>1, <2>2, <2>3
<1>7. CASE Allowed(c) /\ ~isBetterCandidate(c, best)
  <2>1. best' = [best EXCEPT !.Security =
                   @ \/ (sameCandidate(c, best) /\ c.Security)]
    BY <1>4, <1>7 DEF Improved
  <2>2. /\ best'.Version = best.Version /\ best'.Priority = best.Priority
        /\ best'.Security = (best.Security \/ (sameCandidate(c, best) /\ c.Security))
    BY <1>1, <2>1 DEF Candidate
  <2>3. /\ \E o \in Seen' : Allowed(o)' /\ sameCandidate(o, best)'
        /\ \A o \in Seen' : Allowed(o)' => ~isBetterCandidate(o, best)'
    BY <1>2, <1>3, <1>4, <1>7, <2>2
  <2>4. best'.Security <=>
          \E o \in Seen' : Allowed(o)' /\ sameCandidate(o, best)' /\ o.Security
    BY <1>2, <1>3, <1>4, <1>7, <2>2
  <2>5. QED
    BY <2>3, <2>4
<1>8. QED
  BY <1>5, <1>6, <1>7

\* Neither the selection nor the counts change with the state left alone.
LEMMA SelectionFrame ==
  ASSUME Selection(Seen), UNCHANGED <<installed, candidates, considered, best>>
  PROVE  Selection(Seen)'
BY DEF Selection, Seen, Allowed, sameCandidate, isBetterCandidate, AsCandidate

LEMMA InitIInv == Init => IInv
<1> SUFFICES ASSUME Init PROVE LoopInv
  BY InitTypeOK DEF IInv
<1>1. QED
  BY DEF Init, LoopInv, Decided

\* The installed package alone is its own selection.
LEMMA FirstSelection ==
  TypeOK /\ considered = 0 /\ best = AsCandidate(installed) => Selection(Seen)
<1> SUFFICES ASSUME TypeOK, considered = 0, best = AsCandidate(installed)
             PROVE  Selection(Seen)
  OBVIOUS
<1>1. Seen = {AsCandidate(installed)}
  BY DEF Seen
<1>2. installed.Version \in Nat
  BY CandidateTypes DEF TypeOK
<1>3. QED
  BY <1>1, <1>2
     DEF Selection, Allowed, sameCandidate, isBetterCandidate, AsCandidate,
         installedPackagePriority

LEMMA FirstSelectionNext ==
  (TypeOK /\ considered = 0 /\ best = AsCandidate(installed))' => Selection(Seen)'
BY FirstSelection, PTL

LEMMA NextLoopInv == IInv /\ [Next]_vars => LoopInv'
<1> SUFFICES ASSUME IInv, [Next]_vars PROVE LoopInv'
  OBVIOUS
<1>1. TypeOK /\ LoopInv
  BY DEF IInv
<1>2. ASSUME NEW arch \in Architectures, NEW v \in Versions, NEW a \in Archives,
             Parse(arch, v, a)
      PROVE  LoopInv'
  BY <1>1, <1>2 DEF LoopInv, Parse, Decided, AsCandidate
<1>3. CASE SkipPackage
  BY <1>1, <1>3 DEF LoopInv, SkipPackage, Decided
<1>4. CASE BeginPolicy
  <2>1. considered' = 0 /\ best' = AsCandidate(installed)' /\ TypeOK' /\ pc' = "policy"
    BY <1>1, <1>4, NextTypeOK DEF LoopInv, BeginPolicy, Next, AsCandidate
  <2>2. Selection(Seen)'
    BY <2>1, FirstSelectionNext
  <2>3. considered' <= Len(candidates')
    BY <2>1 DEF TypeOK
  <2>4. QED
    BY <2>1, <2>2, <2>3 DEF LoopInv, Decided
<1>5. CASE Consider
  <2>1. installed.Version # NoVersion => Selection(Seen)'
    BY <1>1, <1>5, ConsiderSelects DEF LoopInv, Consider
  <2>2. QED
    BY <1>1, <1>5, <2>1 DEF LoopInv, Consider, Decided, TypeOK
<1>6. CASE Count
  <2>1. installed.Version # NoVersion => Selection(Seen)'
    BY <1>1, <1>6, SelectionFrame DEF LoopInv, Count
  <2>2. counted' = {count \in Counts : FallsUnder(count)'}
    BY <1>6 DEF Count, FallsUnder, isUpgradable, hasPinnedUpdate,
                hasBackportsUpdate, Candidates
  <2>3. QED
    BY <1>1, <1>6, <2>1, <2>2 DEF LoopInv, Count, Decided
<1>7. CASE NextPackage
  BY <1>7 DEF NextPackage, LoopInv, Decided
<1>8. CASE UNCHANGED vars
  <2>1. pc # "parse" /\ installed.Version # NoVersion => Selection(Seen)'
    BY <1>1, <1>8, SelectionFrame DEF LoopInv, vars
  <2>2. {count \in Counts : FallsUnder(count)'} = {count \in Counts : FallsUnder(count)}
    BY <1>8 DEF vars, FallsUnder, isUpgradable, hasPinnedUpdate,
                hasBackportsUpdate, Candidates
  <2>3. QED
    BY <1>1, <1>8, <2>1, <2>2 DEF LoopInv, vars, Decided, AsCandidate
<1>9. QED
  BY <1>2, <1>3, <1>4, <1>5, <1>6, <1>7, <1>8 DEF Next

\* The loop invariant, with the types it needs, is inductive.
THEOREM Invariance == Spec => []IInv
<1>1. IInv /\ [Next]_vars => IInv'
  BY NextTypeOK, NextLoopInv DEF IInv
<1>2. QED
  BY InitIInv, <1>1, PTL DEF Spec

----------------------------------------------------------------------------
(* What follows when all candidates have been seen *)

LEMMA AllSeen == IInv /\ Decided => Seen = Offers /\ Selection(Offers)
<1> SUFFICES ASSUME IInv, Decided PROVE Seen = Offers /\ Selection(Offers)
  OBVIOUS
<1>1. DOMAIN candidates = 1 .. considered
  BY DEF IInv, LoopInv, TypeOK
<1>2. Seen = Offers
  BY <1>1 DEF Seen, Offers, Candidates
<1>3. QED
  BY <1>2 DEF IInv, LoopInv, Decided

LEMMA OfferTypes == IInv /\ Decided => Offers \subseteq Candidate /\ best \in Candidate
BY AllSeen, SeenTypes DEF IInv, LoopInv, TypeOK

\* The candidate selected is apt's, whatever the order and number of the
\* offers: bestPolicyCandidate is a maximum and not an accident of the order.
THEOREM AptSelection == Spec => []SelectsAptCandidate
<1>1. IInv => SelectsAptCandidate
  <2> SUFFICES ASSUME IInv, Decided
               PROVE  /\ \E o \in Offers : Allowed(o) /\ sameCandidate(o, best)
                      /\ \A o \in Offers : Allowed(o) =>
                           o.Priority <= best.Priority
                             /\ (o.Priority = best.Priority => o.Version <= best.Version)
    BY DEF SelectsAptCandidate
  <2>1. Selection(Offers)
    BY AllSeen
  <2>2. \A o \in Offers \cup {best} : o.Version \in Nat /\ o.Priority \in Nat
    BY OfferTypes, CandidateTypes
  <2>3. QED
    BY <2>1, <2>2 DEF Selection, isBetterCandidate
<1>2. QED
  BY Invariance, <1>1, PTL

\* The selection is marked if a security archive offers its version, unless that
\* archive is outranked, and only then, whichever archive was parsed first.
THEOREM SecurityMark == Spec => []SecurityOfSelected
<1>1. IInv => SecurityOfSelected
  <2> SUFFICES ASSUME IInv, Decided
               PROVE  /\ best.Security =>
                           \E o \in Offers : o.Security /\ o.Version = best.Version
                      /\ SecurityNotOutranked =>
                           ((\E o \in Offers : o.Security /\ o.Version = best.Version)
                              => best.Security)
    BY DEF SecurityOfSelected
  <2>1. Selection(Offers)
    BY AllSeen
  <2>2. \A o \in Offers \cup {best} : o.Version \in Nat /\ o.Priority \in Nat
    BY OfferTypes, CandidateTypes
  <2>3. installed.Version \in Nat
    BY CandidateTypes DEF IInv, TypeOK
  <2>4. best.Security => \E o \in Offers : o.Security /\ o.Version = best.Version
    BY <2>1 DEF Selection, sameCandidate
  <2>5. ASSUME SecurityNotOutranked,
               NEW o \in Offers, o.Security, o.Version = best.Version
        PROVE  best.Security
    <3>1. o.Priority >= best.Priority
      BY <2>5 DEF SecurityNotOutranked
    <3>2. PICK selected \in Offers : Allowed(selected) /\ sameCandidate(selected, best)
      BY <2>1 DEF Selection
    <3>3. Allowed(o)
      BY <2>2, <2>3, <2>5, <3>1, <3>2 DEF Allowed, sameCandidate, forceDowngradePriority
    <3>4. ~isBetterCandidate(o, best)
      BY <2>1, <3>3 DEF Selection
    <3>5. sameCandidate(o, best)
      BY <2>2, <2>5, <3>1, <3>4 DEF isBetterCandidate, sameCandidate
    <3>6. QED
      BY <2>1, <2>5, <3>3, <3>5 DEF Selection
  <2>6. QED
    BY <2>4, <2>5
<1>2. QED
  BY Invariance, <1>1, PTL

\* Every newer candidate brings the package under one of the counts.
THEOREM Counting == Spec => []EveryUpdateIsCounted
<1>1. IInv => EveryUpdateIsCounted
  <2> SUFFICES ASSUME IInv, Decided,
                      \A o \in Offers : o.Priority < forceDowngradePriority
               PROVE  (\E c \in Candidates : c.Version > installed.Version)
                        <=> counted \cap {"upgradable", "pinned", "backports"} # {}
    BY DEF EveryUpdateIsCounted
  <2>1. /\ "upgradable" \in counted <=> isUpgradable
        /\ "pinned" \in counted <=> hasPinnedUpdate(FALSE)
        /\ "backports" \in counted <=> hasBackportsUpdate
    BY DEF IInv, LoopInv, Counts, FallsUnder
  <2>2. installed.Version \in Nat /\ installed.held \in BOOLEAN
    BY CandidateTypes DEF IInv, TypeOK, Installed
  <2>3. \A o \in Offers \cup {best} : o.Version \in Nat /\ o.Priority \in Nat
    BY OfferTypes, CandidateTypes
  <2>4. PICK o \in Offers : Allowed(o) /\ sameCandidate(o, best)
    BY AllSeen DEF Selection
  <2>5. best.Version >= installed.Version
    BY <2>2, <2>3, <2>4 DEF Allowed, sameCandidate, forceDowngradePriority
  <2>6. best.Version > installed.Version => o \in Candidates
    BY <2>2, <2>4 DEF Offers, AsCandidate, sameCandidate
  <2>7. isUpgradable => \E c \in Candidates : c.Version > installed.Version
    BY <2>4, <2>6 DEF isUpgradable, sameCandidate
  <2>8. hasPinnedUpdate(FALSE) => \E c \in Candidates : c.Version > installed.Version
    BY <2>2, <2>3, <2>5 DEF hasPinnedUpdate, Offers
  <2>9. hasBackportsUpdate => \E c \in Candidates : c.Version > installed.Version
    BY DEF hasBackportsUpdate
  <2>10. ASSUME NEW c \in Candidates, c.Version > installed.Version,
                ~isUpgradable, ~hasBackportsUpdate
         PROVE  hasPinnedUpdate(FALSE)
    <3>1. ~c.Backports
      BY <2>10 DEF hasBackportsUpdate
    <3>2. installed.held \/ best.Version = installed.Version
      BY <2>2, <2>3, <2>5, <2>10 DEF isUpgradable
    <3>3. QED
      BY <2>10, <3>1, <3>2 DEF hasPinnedUpdate
  <2>11. QED
    BY <2>1, <2>7, <2>8, <2>9, <2>10
<1>2. QED
  BY Invariance, <1>1, PTL
=============================================================================
