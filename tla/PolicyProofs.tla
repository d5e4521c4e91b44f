---------------------------- MODULE PolicyProofs ----------------------------
(***************************************************************************)
(* What the policy engine decides, for every plan and every profile.       *)
(***************************************************************************)
EXTENDS PolicyReview, WellFoundedInduction, TLAPS

RiskClasses == {"READ", "WRITE", "SIGN_AND_BROADCAST", "VALUE_MOVEMENT"}

\* The rank of each class is its place in RiskOrder.
LEMMA RiskRanks ==
    /\ RiskRank("READ") = 1
    /\ RiskRank("WRITE") = 2
    /\ RiskRank("SIGN_AND_BROADCAST") = 3
    /\ RiskRank("VALUE_MOVEMENT") = 4
<1>1. /\ RiskOrder[1] = "READ" /\ RiskOrder[2] = "WRITE"
      /\ RiskOrder[3] = "SIGN_AND_BROADCAST" /\ RiskOrder[4] = "VALUE_MOVEMENT"
  BY DEF RiskOrder
<1>2. \A i \in 1..4 : i = 1 \/ i = 2 \/ i = 3 \/ i = 4
  OBVIOUS
<1> HIDE DEF RiskOrder
<1>3. \A c : RiskRank(c) = CHOOSE i \in 1..4 : RiskOrder[i] = c
  BY DEF RiskRank
<1>4. \A i \in 1..4 : RiskOrder[i] = "READ" <=> i = 1
  BY <1>1, <1>2
<1>5. \A i \in 1..4 : RiskOrder[i] = "WRITE" <=> i = 2
  BY <1>1, <1>2
<1>6. \A i \in 1..4 : RiskOrder[i] = "SIGN_AND_BROADCAST" <=> i = 3
  BY <1>1, <1>2
<1>7. \A i \in 1..4 : RiskOrder[i] = "VALUE_MOVEMENT" <=> i = 4
  BY <1>1, <1>2
<1> QED
  BY <1>3, <1>4, <1>5, <1>6, <1>7

\* A transaction is SIGN_AND_BROADCAST or above.
LEMMA Baseline ==
    ASSUME NEW p
    PROVE  ClassifyTransaction(p) \in {"SIGN_AND_BROADCAST", "VALUE_MOVEMENT"}
<1> DEFINE classes == {"SIGN_AND_BROADCAST"}
                        \cup {ClassifyInstruction(ix) : ix \in InstructionsOf(p)}
           Top(c) == c \in classes /\ \A d \in classes : RiskRank(d) <= RiskRank(c)
<1>1. classes \subseteq RiskClasses
  BY DEF ClassifyInstruction, RiskClasses
<1>2. "SIGN_AND_BROADCAST" \in classes
  OBVIOUS
<1>3. ClassifyTransaction(p) = CHOOSE c : Top(c)
  BY DEF ClassifyTransaction
<1> HIDE DEF classes
<1>4. \E c : Top(c)
  <2>1. CASE "VALUE_MOVEMENT" \in classes
    <3>1. Top("VALUE_MOVEMENT")
      BY <1>1, <2>1, RiskRanks DEF RiskClasses
    <3> QED
      BY <3>1
  <2>2. CASE "VALUE_MOVEMENT" \notin classes
    <3>1. Top("SIGN_AND_BROADCAST")
      BY <1>1, <1>2, <2>2, RiskRanks DEF RiskClasses
    <3> QED
      BY <3>1
  <2> QED
    BY <2>1, <2>2
<1> DEFINE c == ClassifyTransaction(p)
<1>5. Top(c)
  BY <1>3, <1>4
<1>6. c \in RiskClasses /\ RiskRank("SIGN_AND_BROADCAST") <= RiskRank(c)
  BY <1>1, <1>2, <1>5
<1> HIDE DEF c
<1>7. c # "READ" /\ c # "WRITE"
  BY <1>6, RiskRanks
<1>8. c \in {"SIGN_AND_BROADCAST", "VALUE_MOVEMENT"}
  BY <1>6, <1>7 DEF RiskClasses
<1> QED
  BY <1>8 DEF c

\* evaluatePlan never takes its READ branch.
LEMMA Decides ==
    ASSUME NEW p, NEW f
    PROVE  EvaluatePlan(p, f) =
             IF MainnetDisabled(p, f) \/ HasDeniedKind(p, f) THEN "deny"
             ELSE IF OffAllowlist(p, f) \/ OverCap(p, f) THEN "simulate_only"
             ELSE IF f.requireApprovalForBroadcast THEN "needs_approval" ELSE "allow"
BY Baseline DEF EvaluatePlan

\* An agent made without a profile of its own denies every plan for mainnet.
THEOREM DefaultDeniesMainnet ==
    ASSUME NEW p, p.cluster = "mainnet-beta"
    PROVE  EvaluatePlan(p, DefaultPolicyProfile) = "deny"
<1>1. DefaultPolicyProfile.allowMainnet = FALSE
  BY DEF DefaultPolicyProfile
<1>2. MainnetDisabled(p, DefaultPolicyProfile)
  BY <1>1 DEF MainnetDisabled
<1> QED
  BY <1>2, Decides

\* The early returns of evaluatePlan give the strictest decision any rule demands.
THEOREM FailClosed == ReviewSpec => []DecisionIsStrictest
<1>1. DecisionIsStrictest
  <2> DEFINE d == EvaluatePlan(plan, profile)
  <2>1. d \in Demands(plan, profile)
    BY Decides DEF Demands, MainnetDisabled, HasDeniedKind, OffAllowlist, OverCap
  <2>2. ASSUME NEW e \in Demands(plan, profile) PROVE Severity(e) <= Severity(d)
    <3>1. /\ e \in {"allow", "needs_approval", "simulate_only", "deny"}
          /\ e = "deny" => MainnetDisabled(plan, profile) \/ HasDeniedKind(plan, profile)
          /\ e = "simulate_only" => OffAllowlist(plan, profile) \/ OverCap(plan, profile)
          /\ e = "needs_approval" => profile.requireApprovalForBroadcast
          /\ e = "allow" => ~profile.requireApprovalForBroadcast
      BY <2>2 DEF Demands, MainnetDisabled, HasDeniedKind, OffAllowlist, OverCap
    <3>2. /\ d \in {"allow", "needs_approval", "simulate_only", "deny"}
          /\ e = "deny" => d = "deny"
          /\ e = "simulate_only" => d \in {"simulate_only", "deny"}
          /\ e = "needs_approval" => d # "allow"
      BY <3>1, Decides
    <3> QED
      BY <3>1, <3>2 DEF Severity
  <2> QED
    BY <2>1, <2>2 DEF DecisionIsStrictest
<1> QED
  BY <1>1, PTL

-----------------------------------------------------------------------------
(* What is added to a plan *)

\* A set of numbers has a least one.
LEMMA LeastOf ==
    ASSUME NEW T, T \subseteq Nat, T # {}
    PROVE  \E x \in T : \A y \in T : x <= y
<1> DEFINE R == OpToRel(<, Nat)
<1>1. IsWellFoundedOn(R, Nat)
  BY NatLessThanWellFounded
<1>2. \A a, b \in Nat : a < b <=> <<a, b>> \in R
  BY DEF OpToRel
<1> HIDE DEF R
<1>3. PICK x \in T : \A y \in T : ~(<<y, x>> \in R)
  BY <1>1, WFMin
<1>4. ASSUME NEW y \in T PROVE x <= y
  <2>1. x \in Nat /\ y \in Nat /\ ~(y < x)
    BY <1>2, <1>3
  <2> QED
    BY <2>1
<1> QED
  BY <1>4

\* g[n] is the sum of the lamports of the first n of ixs, for n up to m.
IsSum(g, ixs, m) ==
    g = [n \in 0..m |-> IF n = 0 THEN 0 ELSE g[n - 1] + ixs[n].lamports]

\* The sums up to m - 1 extend to m; so no m can be the first without.
LEMMA SumsExist ==
    ASSUME NEW ixs, NEW m \in Nat
    PROVE  \E g : IsSum(g, ixs, m)
<1> DEFINE Without == {n \in Nat : ~\E g : IsSum(g, ixs, n)}
<1>1. Without = {}
  <2> SUFFICES ASSUME Without # {} PROVE FALSE
    OBVIOUS
  <2>1. PICK k \in Without : \A n \in Without : k <= n
    <3>1. Without \subseteq Nat
      OBVIOUS
    <3> HIDE DEF Without
    <3> QED
      BY <3>1, LeastOf
  <2>2. k # 0
    <3> DEFINE g == [n \in 0..0 |-> 0]
    <3>1. IsSum(g, ixs, 0)
      BY DEF IsSum
    <3> QED
      BY <3>1
  <2>3. k - 1 \in Nat /\ k - 1 \notin Without
    BY <2>1, <2>2
  <2>4. PICK g : IsSum(g, ixs, k - 1)
    BY <2>3
  <2> DEFINE h == [n \in 0..k |-> IF n = k THEN g[k - 1] + ixs[k].lamports ELSE g[n]]
  <2>5. ASSUME NEW n \in 0..k
        PROVE  h[n] = IF n = 0 THEN 0 ELSE h[n - 1] + ixs[n].lamports
    <3>1. CASE n = k
      <4>1. h[n] = g[k - 1] + ixs[k].lamports /\ h[k - 1] = g[k - 1]
        BY <2>2, <3>1
      <4> QED
        BY <2>2, <3>1, <4>1
    <3>2. CASE n # k
      <4>1. n \in 0..(k - 1) /\ h[n] = g[n]
        BY <3>2
      <4>2. g[n] = IF n = 0 THEN 0 ELSE g[n - 1] + ixs[n].lamports
        BY <2>4, <4>1 DEF IsSum
      <4>3. n # 0 => n - 1 \in 0..k /\ n - 1 # k
        BY <4>1
      <4> QED
        BY <4>1, <4>2, <4>3
    <3> QED
      BY <3>1, <3>2
  <2>6. IsSum(h, ixs, k)
    <3>1. h = [n \in 0..k |-> h[n]]
      OBVIOUS
    <3> HIDE DEF h
    <3> QED
      BY <2>5, <3>1 DEF IsSum
  <2> QED
    BY <2>1, <2>6
<1> QED
  BY <1>1

\* Sums over the same beginning agree.
LEMMA SumsAgree ==
    ASSUME NEW g, NEW h, NEW xs, NEW ys, NEW k \in Nat, NEW m \in Nat, k <= m,
           IsSum(g, xs, k), IsSum(h, ys, m), \A n \in 1..k : xs[n] = ys[n]
    PROVE  g[k] = h[k]
<1> DEFINE Differ == {n \in 0..k : g[n] # h[n]}
<1>1. Differ = {}
  <2> SUFFICES ASSUME Differ # {} PROVE FALSE
    OBVIOUS
  <2>1. PICK i \in Differ : \A n \in Differ : i <= n
    <3>1. Differ \subseteq Nat
      OBVIOUS
    <3> HIDE DEF Differ
    <3> QED
      BY <3>1, LeastOf
  <2>2. /\ g[i] = IF i = 0 THEN 0 ELSE g[i - 1] + xs[i].lamports
        /\ h[i] = IF i = 0 THEN 0 ELSE h[i - 1] + ys[i].lamports
    BY DEF IsSum
  <2>3. i # 0 => i - 1 \in 0..k /\ i - 1 \notin Differ /\ xs[i] = ys[i]
    BY <2>1
  <2> QED
    BY <2>2, <2>3
<1> QED
  BY <1>1

\* Sums of lamports are numbers.
LEMMA SumsAreNumbers ==
    ASSUME NEW g, NEW xs, NEW m \in Nat, IsSum(g, xs, m),
           \A n \in 1..m : xs[n].lamports \in Nat
    PROVE  g[m] \in Nat
<1> DEFINE Odd == {n \in 0..m : g[n] \notin Nat}
<1>1. Odd = {}
  <2> SUFFICES ASSUME Odd # {} PROVE FALSE
    OBVIOUS
  <2>1. PICK i \in Odd : \A n \in Odd : i <= n
    <3>1. Odd \subseteq Nat
      OBVIOUS
    <3> HIDE DEF Odd
    <3> QED
      BY <3>1, LeastOf
  <2>2. g[i] = IF i = 0 THEN 0 ELSE g[i - 1] + xs[i].lamports
    BY DEF IsSum
  <2>3. i # 0 => g[i - 1] \in Nat /\ xs[i].lamports \in Nat
    BY <2>1
  <2> QED
    BY <2>2, <2>3
<1> QED
  BY <1>1

\* The total is the last of the sums.
LEMMA TotalIsSum ==
    ASSUME NEW p, Len(p.instructions) \in Nat, NEW g,
           IsSum(g, p.instructions, Len(p.instructions))
    PROVE  TotalLamports(p) = g[Len(p.instructions)]
<1> DEFINE n == Len(p.instructions)
           h == CHOOSE f : IsSum(f, p.instructions, n)
<1>1. IsSum(h, p.instructions, n)
  BY SumsExist
<1>2. TotalLamports(p) = h[n]
  BY DEF TotalLamports, IsSum
<1>3. n \in Nat /\ n <= n /\ IsSum(g, p.instructions, n)
  OBVIOUS
<1> HIDE DEF h, n
<1>4. g[n] = h[n]
  BY <1>1, <1>3, SumsAgree
<1> QED
  BY <1>2, <1>4 DEF n

\* An instruction more adds its lamports.
LEMMA TotalGrows ==
    ASSUME NEW p, NEW q, NEW ix \in Instructions, p.instructions \in Seq(Instructions),
           q.instructions = Append(p.instructions, ix)
    PROVE  /\ TotalLamports(p) \in Nat
           /\ TotalLamports(q) = TotalLamports(p) + ix.lamports
<1> DEFINE n == Len(p.instructions)
<1>1. /\ n \in Nat /\ Len(q.instructions) = n + 1 /\ q.instructions[n + 1] = ix
      /\ \A i \in 1..n : p.instructions[i] = q.instructions[i]
                         /\ p.instructions[i] \in Instructions
      /\ n + 1 \in Nat /\ n <= n + 1 /\ n = Len(p.instructions)
  OBVIOUS
<1> HIDE DEF n
<1>2. PICK g : IsSum(g, p.instructions, n)
  BY <1>1, SumsExist
<1>3. PICK h : IsSum(h, q.instructions, n + 1)
  BY <1>1, SumsExist
<1>4. TotalLamports(p) = g[n] /\ TotalLamports(q) = h[n + 1]
  BY <1>1, <1>2, <1>3, TotalIsSum
<1>5. g[n] = h[n]
  BY <1>1, <1>2, <1>3, SumsAgree
<1>6. g[n] \in Nat
  <2>1. \A i \in 1..n : p.instructions[i].lamports \in Nat
    BY <1>1, LamportsAssumption
  <2> QED
    BY <1>1, <1>2, <2>1, SumsAreNumbers
<1>7. h[n + 1] = h[n] + ix.lamports
  BY <1>1, <1>3 DEF IsSum
<1> QED
  BY <1>4, <1>5, <1>6, <1>7

\* A plan with an instruction more is judged at least as strictly.
LEMMA GrownIsStricter ==
    ASSUME NEW f \in Profiles, NEW p, NEW q, NEW ix \in Instructions,
           p.instructions \in Seq(Instructions), q.cluster = p.cluster,
           q.instructions = Append(p.instructions, ix)
    PROVE  Severity(EvaluatePlan(p, f)) <= Severity(EvaluatePlan(q, f))
<1>1. InstructionsOf(p) \subseteq InstructionsOf(q)
  BY DEF InstructionsOf
<1>2. OverCap(p, f) => OverCap(q, f)
  <2>1. TotalLamports(p) \in Nat /\ TotalLamports(q) = TotalLamports(p) + ix.lamports
    BY TotalGrows
  <2>2. ix.lamports \in Nat /\ f.maxLamportsPerTransaction \in Nat
    BY LamportsAssumption
  <2> QED
    BY <2>1, <2>2 DEF OverCap
<1>3. /\ MainnetDisabled(p, f) => MainnetDisabled(q, f)
      /\ HasDeniedKind(p, f) => HasDeniedKind(q, f)
      /\ OffAllowlist(p, f) => OffAllowlist(q, f)
  BY <1>1 DEF MainnetDisabled, HasDeniedKind, OffAllowlist
<1> DEFINE a == EvaluatePlan(p, f)
           b == EvaluatePlan(q, f)
<1>4. /\ a \in {"allow", "needs_approval", "simulate_only", "deny"}
      /\ a = "deny" => b = "deny"
      /\ a = "simulate_only" => b \in {"simulate_only", "deny"}
      /\ a = "needs_approval" => b \in {"needs_approval", "simulate_only", "deny"}
      /\ b \in {"allow", "needs_approval", "simulate_only", "deny"}
  BY <1>2, <1>3, Decides
<1> HIDE DEF a, b
<1>5. Severity(a) <= Severity(b)
  BY <1>4 DEF Severity
<1> QED
  BY <1>5 DEF a, b

\* The plan is a list of instructions, the profile one of those injected, and the last
\* decision no stricter than the one the plan would get now.
ReviewInv ==
    /\ plan = [cluster |-> plan.cluster, instructions |-> plan.instructions]
    /\ plan.instructions \in Seq(Instructions)
    /\ profile \in Profiles
    /\ decision \in {"none", "allow", "needs_approval", "simulate_only", "deny"}
    /\ Severity(decision) <= Severity(EvaluatePlan(plan, profile))

\* Whatever is added, the next decision is at least as strict as the last.
LEMMA ReviewStep ==
    ASSUME ReviewInv, [ReviewNext]_reviewVars
    PROVE  ReviewInv' /\ Severity(decision') >= Severity(decision)
<1>0. /\ \A p, f : EvaluatePlan(p, f) \in {"allow", "needs_approval", "simulate_only", "deny"}
      /\ \A d \in {"none", "allow", "needs_approval", "simulate_only", "deny"} :
            Severity(d) \in Nat
  BY Decides DEF Severity
<1>1. CASE UNCHANGED reviewVars
  BY <1>0, <1>1 DEF reviewVars, ReviewInv
<1>2. ASSUME NEW ix \in Instructions, AddInstruction(ix)
      PROVE  ReviewInv' /\ Severity(decision') >= Severity(decision)
  <2>1. /\ plan' = [plan EXCEPT !.instructions = Append(plan.instructions, ix)]
        /\ profile' = profile /\ decision' = decision
    BY <1>2 DEF AddInstruction
  <2>2. /\ plan'.cluster = plan.cluster
        /\ plan'.instructions = Append(plan.instructions, ix)
        /\ plan' = [cluster |-> plan'.cluster, instructions |-> plan'.instructions]
    BY <2>1 DEF ReviewInv
  <2>3. plan'.instructions \in Seq(Instructions)
    BY <2>2 DEF ReviewInv
  <2>4. Severity(EvaluatePlan(plan, profile)) <= Severity(EvaluatePlan(plan', profile))
    BY <2>2, GrownIsStricter DEF ReviewInv
  <2>5. /\ Severity(decision) \in Nat /\ Severity(EvaluatePlan(plan, profile)) \in Nat
        /\ Severity(EvaluatePlan(plan', profile)) \in Nat
    BY <1>0 DEF ReviewInv
  <2>6. Severity(decision) <= Severity(EvaluatePlan(plan', profile))
    BY <2>4, <2>5 DEF ReviewInv
  <2>7. /\ profile' \in Profiles /\ Severity(decision') >= Severity(decision)
        /\ decision' \in {"none", "allow", "needs_approval", "simulate_only", "deny"}
    BY <2>1, <2>5 DEF ReviewInv
  <2> QED
    BY <2>1, <2>2, <2>3, <2>6, <2>7 DEF ReviewInv
<1>3. CASE Evaluate
  <2>1. plan' = plan /\ profile' = profile /\ decision' = EvaluatePlan(plan, profile)
    BY <1>3 DEF Evaluate
  <2> QED
    BY <1>0, <2>1 DEF ReviewInv
<1> QED
  BY <1>1, <1>2, <1>3 DEF ReviewNext

\* Nothing that is added to a plan talks it out of a guard.
THEOREM GrowthOnlyTightens == ReviewSpec => DecisionsOnlyTighten
<1>1. ReviewInit => ReviewInv
  <2> SUFFICES ASSUME ReviewInit PROVE ReviewInv
    OBVIOUS
  <2>1. /\ plan = [cluster |-> plan.cluster, instructions |-> plan.instructions]
        /\ plan.instructions = << >> /\ profile \in Profiles /\ decision = "none"
    BY DEF ReviewInit
  <2>2. EvaluatePlan(plan, profile) \in {"allow", "needs_approval", "simulate_only", "deny"}
    BY Decides
  <2>3. Severity(decision) <= Severity(EvaluatePlan(plan, profile))
    BY <2>1, <2>2 DEF Severity
  <2> QED
    BY <2>1, <2>3 DEF ReviewInv
<1>2. ReviewInv /\ [ReviewNext]_reviewVars
        => ReviewInv' /\ [Severity(decision') >= Severity(decision)]_decision
  BY ReviewStep
<1> QED
  BY <1>1, <1>2, PTL DEF ReviewSpec, DecisionsOnlyTighten

=============================================================================
