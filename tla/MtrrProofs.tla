----------------------------- MODULE MtrrProofs -----------------------------
(***************************************************************************)
(* Proofs about Mtrr for any CPUs, resources, ROM sizes and numbers of     *)
(* registers.  First, how the solutions of the BSP, of the APs and of the  *)
(* temporary range replace one another, whatever a solution is made of.    *)
(* Then what it is made of: the range lists of MemRange give every page    *)
(* the tag that the last insertion over it had; the pieces of a range      *)
(* cover it and no more; a rounded-up range is overruled where it reaches  *)
(* into the next one.  Together: every page gets the type it should have.  *)
(***************************************************************************)
EXTENDS Mtrr, FiniteSetTheorems, NaturalsInduction, SequenceTheorems,
        WellFoundedInduction, TLAPS

-----------------------------------------------------------------------------
(* The inductive invariant.                                                *)

Regs(fixed, var, default) == [fixed |-> fixed, var |-> var, default |-> default]

IsRegs(m) == m = Regs(m.fixed, m.var, m.default)

\* What a CPU holds that has loaded the solution that stays.
Permanent ==
    Regs(fixed_mtrr_types, mtrr_global_solution.regs,
         mtrr_global_solution.mtrr_default_type)

\* The first caller has left fixed types, a solution and the number of
\* registers it was made for; before it, nobody has loaded anything.
Solved ==
    /\ solved => /\ fixed_mtrr_types # <<>>
                 /\ total_mtrrs = detect_var_mtrrs
                 /\ msrs[Bsp].fixed = fixed_mtrr_types
    /\ ~solved => ~handed /\ \A c \in Cpus : loaded[c] = "reset"

\* The registers are those of the solution that loaded names; only the BSP
\* loads a temporary one, and the flag that takes it back stays set.
Loaded ==
    /\ msrs = [c \in Cpus |-> msrs[c]] /\ loaded = [c \in Cpus |-> loaded[c]]
    /\ \A c \in Cpus :
          /\ IsRegs(msrs[c])
          /\ loaded[c] \in {"reset", "permanent", "temporary"}
          /\ loaded[c] = "permanent" => msrs[c] = Permanent
          /\ loaded[c] = "temporary" => c = Bsp /\ put_back_original_solution = TRUE

\* A temporary solution outlives the hand-over only if it cannot be replaced.
TakenBack ==
    handed /\ Fits(mtrr_global_solution, total_mtrrs) => loaded[Bsp] # "temporary"

Inv == Solved /\ Loaded /\ TakenBack

-----------------------------------------------------------------------------
(* The registers.                                                          *)

\* The fields of the registers.
LEMMA RegsFields ==
    ASSUME NEW f, NEW v, NEW d
    PROVE  /\ Regs(f, v, d).fixed = f /\ Regs(f, v, d).var = v
           /\ Regs(f, v, d).default = d /\ IsRegs(Regs(f, v, d))
BY Zenon DEF Regs, IsRegs

\* commit_fixed_mtrrs writes the fixed types only.
LEMMA FixedEffect ==
    ASSUME NEW m, NEW types, IsRegs(m)
    PROVE  commit_fixed_mtrrs(m, types) = Regs(types, m.var, m.default)
<1>1. PICK f, v, d : m = Regs(f, v, d)
    BY DEF IsRegs
<1>2. [Regs(f, v, d) EXCEPT !.fixed = types] = Regs(types, v, d)
    BY DEF Regs
<1> QED BY <1>1, <1>2, RegsFields DEF commit_fixed_mtrrs

\* commit_var_mtrrs writes a whole solution or nothing.
LEMMA VarEffect ==
    ASSUME NEW m, NEW sol, NEW total, IsRegs(m)
    PROVE  commit_var_mtrrs(m, sol, total) =
             IF Fits(sol, total)
             THEN Regs(m.fixed, sol.regs, sol.mtrr_default_type)
             ELSE m
<1>1. PICK f, v, d : m = Regs(f, v, d)
    BY DEF IsRegs
<1>2. [Regs(f, v, d) EXCEPT !.var = sol.regs, !.default = sol.mtrr_default_type]
        = Regs(f, sol.regs, sol.mtrr_default_type)
    <2>1. \A r, a, b : [r EXCEPT !.var = a, !.default = b]
                         = [[r EXCEPT !.var = a] EXCEPT !.default = b]
        OBVIOUS
    <2>2. \A a : [Regs(f, v, d) EXCEPT !.var = a] = Regs(f, a, d)
        BY DEF Regs
    <2>3. \A a, b : [Regs(f, a, d) EXCEPT !.default = b] = Regs(f, a, b)
        BY DEF Regs
    <2> QED BY <2>1, <2>2, <2>3, Zenon
<1> QED BY <1>1, <1>2, RegsFields DEF commit_var_mtrrs

\* The fixed types of a solution show that there is one.
LEMMA FixedNotEmpty ==
    ASSUME NEW space
    PROVE  calc_fixed_mtrrs(space) # <<>>
<1>1. DOMAIN calc_fixed_mtrrs(space) = 0 .. RANGE_1MB - 1
    BY DEF calc_fixed_mtrrs
<1>2. 0 \in 0 .. RANGE_1MB - 1
    BY MtrrAssumption
<1>3. DOMAIN <<>> = {}
    OBVIOUS
<1> QED BY <1>1, <1>2, <1>3

-----------------------------------------------------------------------------
(* The steps.                                                              *)

\* Any CPU loads the solution of the first caller, and the BSP is the first.
LEMMA SetupStep ==
    ASSUME Inv, NEW c \in Cpus, x86_setup_mtrrs_with_detect(c)
    PROVE  Inv'
<1> DEFINE space == get_physical_address_space
           calc == calc_var_mtrrs(space, above4gb, detect_var_mtrrs)
           fixed == IF fixed_mtrr_types # <<>> THEN fixed_mtrr_types
                    ELSE calc_fixed_mtrrs(space)
           sol == IF solved THEN mtrr_global_solution
                  ELSE prepare_var_mtrrs(calc.space, calc.def, above4gb,
                                         detect_var_mtrrs)
<1>1. /\ solved => fixed = fixed_mtrr_types /\ sol = mtrr_global_solution
      /\ fixed # <<>> /\ (c = Bsp \/ solved)
      /\ total_mtrrs' = detect_var_mtrrs
      /\ fixed_mtrr_types' = fixed /\ mtrr_global_solution' = sol /\ solved' = TRUE
      /\ msrs' = [msrs EXCEPT ![c] = commit_var_mtrrs(
                     commit_fixed_mtrrs(msrs[c], fixed), sol, detect_var_mtrrs)]
      /\ loaded' = [loaded EXCEPT ![c] =
                      IF Fits(sol, detect_var_mtrrs) THEN "permanent" ELSE loaded[c]]
      /\ UNCHANGED <<capability, put_back_original_solution, handed>>
    <2>1. fixed # <<>> /\ (solved => fixed = fixed_mtrr_types)
        BY FixedNotEmpty DEF Inv, Solved
    <2> QED BY <2>1 DEF x86_setup_mtrrs_with_detect, hardware
<1> HIDE DEF fixed, sol
<1>2. detect_var_mtrrs' = detect_var_mtrrs
    BY <1>1 DEF detect_var_mtrrs
<1>3. IsRegs(msrs[c]) /\ Bsp \in Cpus
    BY MtrrAssumption DEF Inv, Loaded
<1>4. PICK m : /\ m = Regs(fixed, msrs[c].var, msrs[c].default) /\ IsRegs(m)
               /\ m.fixed = fixed /\ commit_fixed_mtrrs(msrs[c], fixed) = m
    BY <1>3, FixedEffect, RegsFields
<1>5. /\ DOMAIN msrs = Cpus /\ DOMAIN loaded = Cpus
    BY DEF Inv, Loaded
<1>6. msrs'[c] = IF Fits(sol, detect_var_mtrrs)
                 THEN Regs(fixed, sol.regs, sol.mtrr_default_type) ELSE m
    BY <1>1, <1>4, <1>5, VarEffect
<1>7. /\ \A d \in Cpus : d # c => msrs'[d] = msrs[d] /\ loaded'[d] = loaded[d]
      /\ loaded'[c] = IF Fits(sol, detect_var_mtrrs) THEN "permanent" ELSE loaded[c]
      /\ DOMAIN msrs' = Cpus /\ DOMAIN loaded' = Cpus
      /\ msrs' = [d \in Cpus |-> msrs'[d]] /\ loaded' = [d \in Cpus |-> loaded'[d]]
    BY <1>1, <1>5
<1>8. IsRegs(msrs'[c]) /\ msrs'[c].fixed = fixed
    BY <1>4, <1>6, RegsFields
<1>9. Permanent' = Regs(fixed, sol.regs, sol.mtrr_default_type)
    BY <1>1 DEF Permanent
<1>10. Solved'
    BY <1>1, <1>2, <1>3, <1>7, <1>8 DEF Solved, Inv
<1>11. Loaded'
    <2>1. ASSUME NEW d \in Cpus
          PROVE  /\ IsRegs(msrs'[d])
                 /\ loaded'[d] \in {"reset", "permanent", "temporary"}
                 /\ loaded'[d] = "permanent" => msrs'[d] = Permanent'
                 /\ loaded'[d] = "temporary" =>
                      d = Bsp /\ put_back_original_solution' = TRUE
        <3>1. CASE d # c
            <4>1. solved => Permanent' = Permanent
                BY <1>1 DEF Permanent
            <4> QED BY <1>1, <1>7, <3>1, <4>1 DEF Inv, Loaded, Solved
        <3>2. CASE d = c /\ Fits(sol, detect_var_mtrrs)
            BY <1>6, <1>7, <1>8, <1>9, <3>2
        <3>3. CASE d = c /\ ~Fits(sol, detect_var_mtrrs)
            <4>1. loaded[c] = "permanent" => msrs'[c] = Permanent'
                <5> SUFFICES ASSUME loaded[c] = "permanent" PROVE msrs'[c] = Permanent'
                    OBVIOUS
                <5>1. solved /\ msrs[c] = Permanent
                    BY DEF Inv, Solved, Loaded
                <5>2. msrs[c].var = sol.regs /\ msrs[c].default = sol.mtrr_default_type
                    BY <1>1, <5>1, RegsFields DEF Permanent
                <5> QED BY <1>4, <1>6, <1>9, <3>3, <5>2
            <4> QED BY <1>1, <1>7, <1>8, <3>3, <4>1 DEF Inv, Loaded
        <3> QED BY <3>1, <3>2, <3>3
    <2> QED BY <1>7, <2>1 DEF Loaded
<1>12. TakenBack'
    BY <1>1, <1>3, <1>7 DEF Inv, TakenBack, Solved, Fits
<1> QED BY <1>10, <1>11, <1>12 DEF Inv

\* The BSP loads some other solution, the temporary one or that of the first
\* caller, or cannot.
LEMMA BspStep ==
    ASSUME Inv, solved, NEW sol,
           UNCHANGED <<capability, total_mtrrs, fixed_mtrr_types,
                       mtrr_global_solution, solved>>,
           msrs' = [msrs EXCEPT ![Bsp] = commit_var_mtrrs(@, sol, total_mtrrs)]
    PROVE  /\ Solved' /\ Permanent' = Permanent
           /\ \A d \in Cpus : IsRegs(msrs'[d]) /\ (d # Bsp => msrs'[d] = msrs[d])
           /\ msrs'[Bsp] = IF Fits(sol, total_mtrrs)
                           THEN Regs(fixed_mtrr_types, sol.regs, sol.mtrr_default_type)
                           ELSE msrs[Bsp]
           /\ msrs' = [d \in Cpus |-> msrs'[d]]
<1>1. Bsp \in Cpus /\ IsRegs(msrs[Bsp]) /\ DOMAIN msrs = Cpus
      /\ msrs[Bsp].fixed = fixed_mtrr_types
    BY MtrrAssumption DEF Inv, Loaded, Solved
<1>2. msrs'[Bsp] = IF Fits(sol, total_mtrrs)
                   THEN Regs(fixed_mtrr_types, sol.regs, sol.mtrr_default_type)
                   ELSE msrs[Bsp]
    BY <1>1, VarEffect
<1>3. \A d \in Cpus : d # Bsp => msrs'[d] = msrs[d]
    BY <1>1
<1>4. msrs'[Bsp].fixed = fixed_mtrr_types /\ IsRegs(msrs'[Bsp])
    BY <1>1, <1>2, RegsFields
<1>5. Solved'
    BY <1>4 DEF Inv, Solved, detect_var_mtrrs
<1>6. Permanent' = Permanent
    BY DEF Permanent
<1>7. \A d \in Cpus : IsRegs(msrs'[d])
    BY <1>3, <1>4 DEF Inv, Loaded
<1>8. msrs' = [d \in Cpus |-> msrs'[d]]
    BY <1>1
<1> QED BY <1>2, <1>3, <1>5, <1>6, <1>7, <1>8

\* A temporary range is set up: only the BSP's registers change.
LEMMA TempStep ==
    ASSUME Inv, NEW size \in RomSizes, mtrr_use_temp_range(size)
    PROVE  Inv'
<1> DEFINE calc == calc_var_mtrrs(TempSpace(size), TRUE, total_mtrrs)
           sol == prepare_var_mtrrs(calc.space, calc.def, TRUE, total_mtrrs)
<1>1. /\ solved /\ ~handed /\ handed' = handed
      /\ UNCHANGED <<capability, total_mtrrs, fixed_mtrr_types,
                     mtrr_global_solution, solved>>
      /\ msrs' = [msrs EXCEPT ![Bsp] = commit_var_mtrrs(@, sol, total_mtrrs)]
      /\ IF Fits(sol, total_mtrrs)
         THEN /\ put_back_original_solution' = TRUE
              /\ loaded' = [loaded EXCEPT ![Bsp] = "temporary"]
         ELSE UNCHANGED <<put_back_original_solution, loaded>>
    BY DEF mtrr_use_temp_range, hardware
<1> HIDE DEF sol
<1>2. /\ Solved' /\ Permanent' = Permanent
      /\ \A d \in Cpus : IsRegs(msrs'[d]) /\ (d # Bsp => msrs'[d] = msrs[d])
      /\ ~Fits(sol, total_mtrrs) => msrs'[Bsp] = msrs[Bsp]
      /\ msrs' = [d \in Cpus |-> msrs'[d]]
    BY <1>1, BspStep
<1>3. Bsp \in Cpus /\ DOMAIN loaded = Cpus
    BY MtrrAssumption DEF Inv, Loaded
<1>4. Loaded'
    <2>1. CASE Fits(sol, total_mtrrs)
        <3>1. /\ loaded'[Bsp] = "temporary"
              /\ \A d \in Cpus : d # Bsp => loaded'[d] = loaded[d]
              /\ loaded' = [d \in Cpus |-> loaded'[d]]
            BY <1>1, <1>3, <2>1
        <3> QED BY <1>1, <1>2, <2>1, <3>1 DEF Inv, Loaded
    <2>2. CASE ~Fits(sol, total_mtrrs)
        BY <1>1, <1>2, <2>2 DEF Inv, Loaded
    <2> QED BY <2>1, <2>2
<1>5. TakenBack'
    BY <1>1 DEF TakenBack
<1> QED BY <1>2, <1>4, <1>5 DEF Inv

\* The temporary range is taken back.
LEMMA RemoveStep ==
    ASSUME Inv, remove_temp_solution
    PROVE  Inv'
<1>1. /\ solved
      /\ UNCHANGED <<capability, total_mtrrs, fixed_mtrr_types,
                     mtrr_global_solution, solved, put_back_original_solution>>
    BY DEF remove_temp_solution, hardware
<1>2. Bsp \in Cpus /\ DOMAIN loaded = Cpus
    BY MtrrAssumption DEF Inv, Loaded
<1>3. CASE PutBack
    <2>1. /\ msrs' = [msrs EXCEPT ![Bsp] =
                         commit_var_mtrrs(@, mtrr_global_solution, total_mtrrs)]
          /\ loaded' = [loaded EXCEPT ![Bsp] =
                           IF Fits(mtrr_global_solution, total_mtrrs)
                           THEN "permanent" ELSE loaded[Bsp]]
        BY <1>3 DEF remove_temp_solution
    <2>2. /\ Solved' /\ Permanent' = Permanent
          /\ \A d \in Cpus : IsRegs(msrs'[d]) /\ (d # Bsp => msrs'[d] = msrs[d])
          /\ msrs'[Bsp] = IF Fits(mtrr_global_solution, total_mtrrs)
                          THEN Permanent ELSE msrs[Bsp]
          /\ msrs' = [d \in Cpus |-> msrs'[d]]
        BY <1>1, <2>1, BspStep DEF Permanent
    <2>3. /\ loaded'[Bsp] = IF Fits(mtrr_global_solution, total_mtrrs)
                            THEN "permanent" ELSE loaded[Bsp]
          /\ \A d \in Cpus : d # Bsp => loaded'[d] = loaded[d]
          /\ loaded' = [d \in Cpus |-> loaded'[d]]
        BY <1>2, <2>1
    <2>4. Loaded'
        BY <1>1, <2>2, <2>3 DEF Inv, Loaded
    <2>5. TakenBack'
        BY <1>1, <2>3 DEF TakenBack, Fits
    <2> QED BY <2>2, <2>4, <2>5 DEF Inv
<1>4. CASE ~PutBack
    <2>1. UNCHANGED <<msrs, loaded>>
        BY <1>4 DEF remove_temp_solution
    <2>2. loaded[Bsp] # "temporary"
        BY <1>2, <1>4 DEF Inv, Loaded, PutBack
    <2> QED
        BY <1>1, <2>1, <2>2
        DEF Inv, Solved, Loaded, TakenBack, Permanent, Fits, detect_var_mtrrs
<1> QED BY <1>3, <1>4

\* Before the first caller.
LEMMA StartInv == Init => Inv
<1> SUFFICES ASSUME Init PROVE Inv
    OBVIOUS
<1>1. \A c \in Cpus : IsRegs(msrs[c]) /\ loaded[c] = "reset"
    BY RegsFields DEF Init, Regs
<1> QED BY <1>1, MtrrAssumption DEF Init, Inv, Solved, Loaded, TakenBack

\* Every step keeps the invariant.
LEMMA StepInv == Inv /\ [Next]_vars => Inv'
<1>1. CASE UNCHANGED vars
    BY <1>1
    DEF vars, hardware, Inv, Solved, Loaded, TakenBack, Permanent, Fits,
        detect_var_mtrrs
<1> QED BY <1>1, SetupStep, TempStep, RemoveStep DEF Next

\* Once the payload is loaded or the OS is resumed, the CPUs that loaded a
\* solution agree on all registers, whatever the order in which the BSP and the
\* APs came, how often the BSP came back and which temporary ranges were tried.
THEOREM SolutionSameForTheOS == Spec => []SameForTheOS
<1>1. Init => Inv
    BY StartInv
<1>2. Inv /\ [Next]_vars => Inv'
    BY StepInv
<1>3. Inv => SameForTheOS
    <2>1. Bsp \in Cpus
        BY MtrrAssumption
    <2> QED BY <2>1 DEF Inv, Loaded, TakenBack, SameForTheOS
<1> QED BY <1>1, <1>2, <1>3, PTL DEF Spec

-----------------------------------------------------------------------------
(* Induction.                                                              *)

\* The order of the naturals as a set of pairs.
Less == {p \in Nat \X Nat : p[1] < p[2]}

\* It is well founded.
LEMMA LessWF == IsWellFoundedOn(Less, Nat)
BY NatLessThanWellFounded DEF OpToRel, Less

\* A nonempty set of naturals has a least element.
LEMMA Least ==
    ASSUME NEW T \in SUBSET Nat, T # {}
    PROVE  \E x \in T : \A y \in T : x <= y
<1>1. PICK x \in T : \A y \in T : ~(<<y, x>> \in Less)
    BY LessWF, WFMin
<1>2. \A y \in T : ~(y < x)
    BY <1>1 DEF Less
<1> QED BY <1>2

\* What holds of 0 and goes from each number to the next holds up to n.
LEMMA Climb ==
    ASSUME NEW n \in Nat, NEW T, 0 \in T, \A i \in 0 .. n - 1 : i \in T => i + 1 \in T
    PROVE  \A i \in 0 .. n : i \in T
<1> SUFFICES ASSUME NEW k \in 0 .. n, k \notin T PROVE FALSE
    OBVIOUS
<1> DEFINE U == {i \in 0 .. n : i \notin T}
<1>1. U \in SUBSET Nat /\ U # {}
    OBVIOUS
<1>2. \A i \in U : i \in 0 .. n /\ i \notin T
    OBVIOUS
<1>3. \A i \in 0 .. n : i \notin T => i \in U
    OBVIOUS
<1> HIDE DEF U
<1>4. PICK x \in U : \A y \in U : x <= y
    BY <1>1, Least
<1>5. x \in 0 .. n /\ x # 0
    BY <1>2
<1>6. x - 1 \in 0 .. n - 1 /\ x - 1 \in 0 .. n /\ (x - 1) + 1 = x /\ ~(x <= x - 1)
    BY <1>5
<1>7. x - 1 \in T
    BY <1>3, <1>4, <1>6
<1>8. x \in T
    BY <1>6, <1>7
<1> QED BY <1>2, <1>8

\* A function defined from each number to the next.
Grows(f, n, base, G) == f = [k \in 0 .. n |-> IF k = 0 THEN base ELSE G[k][f[k - 1]]]

\* There is one, when every step stays in S.
LEMMA GrowsExists ==
    ASSUME NEW n \in Nat, NEW S, NEW base \in S, NEW G \in [1 .. n -> [S -> S]]
    PROVE  \E f \in [0 .. n -> S] : Grows(f, n, base, G)
<1> DEFINE T == {m \in 0 .. n : \E f \in [0 .. m -> S] : Grows(f, m, base, G)}
<1>1. 0 \in T
    <2>1. [k \in 0 .. 0 |-> base] \in [0 .. 0 -> S]
        OBVIOUS
    <2>2. Grows([k \in 0 .. 0 |-> base], 0, base, G)
        BY DEF Grows
    <2> QED BY <2>1, <2>2
<1>2. ASSUME NEW i \in 0 .. n - 1, i \in T PROVE i + 1 \in T
    <2>1. PICK f \in [0 .. i -> S] : Grows(f, i, base, G)
        BY <1>2
    <2>2. i \in Nat /\ i \in 0 .. i /\ i + 1 \in 1 .. n /\ i + 1 \in 0 .. n
        BY <1>2
    <2>3. G[i + 1][f[i]] \in S
        BY <2>2
    <2> DEFINE v == G[i + 1][f[i]]
               g == [k \in 0 .. i + 1 |-> IF k = i + 1 THEN v ELSE f[k]]
    <2>4. \A k \in 0 .. i + 1 : k # i + 1 => k \in 0 .. i
        BY <2>2
    <2>5. g \in [0 .. i + 1 -> S]
        BY <2>3, <2>4
    <2>6. \A k \in 0 .. i : f[k] = IF k = 0 THEN base ELSE G[k][f[k - 1]]
        BY <2>1 DEF Grows
    <2>7. \A k \in 0 .. i + 1 : g[k] = IF k = 0 THEN base ELSE G[k][g[k - 1]]
        <3> TAKE k \in 0 .. i + 1
        <3>1. CASE k = i + 1
            <4>1. k # 0 /\ k - 1 = i /\ i \in 0 .. i + 1 /\ i # i + 1
                BY <3>1, <2>2
            <4> QED BY <3>1, <4>1
        <3>2. CASE k # i + 1
            <4>1. k \in 0 .. i /\ (k # 0 => k - 1 \in 0 .. i + 1 /\ k - 1 # i + 1)
                BY <3>2, <2>2
            <4> QED BY <3>2, <4>1, <2>6
        <3> QED BY <3>1, <3>2
    <2> HIDE DEF g
    <2>8. Grows(g, i + 1, base, G)
        BY <2>5, <2>7 DEF Grows
    <2> QED BY <2>2, <2>5, <2>8
<1>3. \A i \in 0 .. n : i \in T
    <2> HIDE DEF T
    <2> QED BY <1>1, <1>2, Climb
<1> QED BY <1>3

-----------------------------------------------------------------------------
(* Sequences.                                                              *)

\* The parts joined so far.
FlatFn(q) == CHOOSE f : f = [i \in 1 .. Len(q) |-> IF i = 1 THEN q[i] ELSE f[i - 1] \o q[i]]

\* FlattenSeq joins the parts one by one.
LEMMA FlattenIs ==
    ASSUME NEW S, NEW q \in Seq(Seq(S))
    PROVE  \E g \in [0 .. Len(q) -> Seq(S)] :
              /\ g[0] = <<>> /\ FlattenSeq(q) = g[Len(q)]
              /\ \A i \in 1 .. Len(q) : g[i] = g[i - 1] \o q[i]
<1> DEFINE n == Len(q)
           G == [i \in 1 .. n |-> [x \in Seq(S) |-> x \o q[i]]]
<1>1. n \in Nat /\ q \in [1 .. n -> Seq(S)]
    BY LenProperties
<1>2. <<>> \in Seq(S)
    BY EmptySeq
<1>3. G \in [1 .. n -> [Seq(S) -> Seq(S)]]
    BY <1>1, ConcatProperties
<1> HIDE DEF n
<1>4. PICK g \in [0 .. n -> Seq(S)] : Grows(g, n, <<>>, G)
    <2> HIDE DEF G
    <2> QED BY <1>1, <1>2, <1>3, GrowsExists
<1>5. g[0] = <<>> /\ \A i \in 1 .. n : g[i] = g[i - 1] \o q[i]
    <2>1. g[0] = <<>>
        BY <1>1, <1>4 DEF Grows
    <2>2. ASSUME NEW i \in 1 .. n PROVE g[i] = g[i - 1] \o q[i]
        <3>1. i \in 0 .. n /\ i # 0 /\ i - 1 \in 0 .. n
            BY <1>1
        <3>2. g[i] = G[i][g[i - 1]] /\ g[i - 1] \in Seq(S)
            BY <1>4, <3>1 DEF Grows
        <3> QED BY <3>2
    <2> QED BY <2>1, <2>2
<1> HIDE DEF G
<1>6. CASE n = 0
    <2>1. q = <<>>
        BY <1>1, <1>6, EmptySeq DEF n
    <2>2. FlattenSeq(q) = q
        BY <1>6 DEF FlattenSeq, n
    <2> QED BY <1>4, <1>5, <1>6, <2>1, <2>2 DEF n
<1>7. CASE n # 0
    <2> DEFINE h == [i \in 1 .. n |-> g[i]]
               f == FlatFn(q)
               Eq(F) == F = [i \in 1 .. Len(q) |-> IF i = 1 THEN q[i] ELSE F[i - 1] \o q[i]]
    <2>1. \A i \in 1 .. n : h[i] = IF i = 1 THEN q[i] ELSE h[i - 1] \o q[i]
        <3> TAKE i \in 1 .. n
        <3>1. CASE i = 1
            <4>1. 1 \in 1 .. n /\ 1 - 1 = 0
                BY <3>1
            <4>2. g[1] = g[1 - 1] \o q[1] /\ q[1] \in Seq(S)
                BY <1>1, <1>5, <4>1
            <4>3. g[1] = q[1]
                BY <1>5, <4>1, <4>2, ConcatEmptySeq
            <4> QED BY <3>1, <4>1, <4>3
        <3>2. CASE i # 1
            <4>1. i - 1 \in 1 .. n
                BY <3>2, <1>1
            <4> QED BY <3>2, <4>1, <1>5
        <3> QED BY <3>1, <3>2
    <2>2. Eq(h)
        BY <2>1 DEF n
    <2>3. Eq(f)
        <3> HIDE DEF h
        <3> QED BY <2>2, Zenon DEF FlatFn
    <2>4. FlattenSeq(q) = f[n]
        BY <1>7 DEF FlattenSeq, FlatFn, n
    <2> HIDE DEF f
    <2>5. \A i \in 1 .. n : f[i] = IF i = 1 THEN q[i] ELSE f[i - 1] \o q[i]
        BY <2>3 DEF n
    <2> DEFINE T == {i \in 0 .. n : i = 0 \/ f[i] = g[i]}
    <2>6. 0 \in T
        BY <1>1
    <2>7. ASSUME NEW i \in 0 .. n - 1, i \in T PROVE i + 1 \in T
        <3>1. i + 1 \in 1 .. n /\ (i + 1) - 1 = i /\ i + 1 \in 0 .. n /\ (i # 0 => i + 1 # 1)
              /\ (i # 0 => i \in 1 .. n)
            BY <1>1, <2>7
        <3>2. CASE i = 0
            <4>1. i + 1 = 1 /\ 1 \in 1 .. n
                BY <3>1, <3>2
            <4>2. g[1] = h[1]
                BY <4>1
            <4>3. f[1] = q[1] /\ h[1] = q[1]
                <5> HIDE DEF h
                <5> QED BY <2>1, <2>5, <4>1
            <4>4. f[1] = g[1]
                BY <4>2, <4>3
            <4> QED BY <3>1, <4>1, <4>4
        <3>3. CASE i # 0
            <4>1. f[i + 1] = f[i] \o q[i + 1] /\ g[i + 1] = g[i] \o q[i + 1] /\ f[i] = g[i]
                BY <1>5, <2>5, <3>1, <3>3, <2>7
            <4> QED BY <3>1, <4>1
        <3> QED BY <3>2, <3>3
    <2>8. \A i \in 0 .. n : i \in T
        <3> HIDE DEF T
        <3> QED BY <1>1, <2>6, <2>7, Climb
    <2>9. f[n] = g[n]
        BY <1>1, <1>7, <2>8
    <2> QED BY <1>4, <1>5, <2>4, <2>9 DEF n
<1> QED BY <1>6, <1>7

\* What the members of a sequence are.
LEMMA Members ==
    ASSUME NEW S, NEW s \in Seq(S)
    PROVE  /\ Len(s) \in Nat /\ DOMAIN s = 1 .. Len(s) /\ Range(s) \subseteq S
           /\ \A x : x \in Range(s) <=> \E i \in 1 .. Len(s) : x = s[i]
           /\ \A i \in 1 .. Len(s) : s[i] \in S /\ s[i] \in Range(s)
<1>1. Len(s) \in Nat /\ DOMAIN s = 1 .. Len(s) /\ \A i \in 1 .. Len(s) : s[i] \in S
    BY LenProperties
<1> QED BY <1>1 DEF Range

\* The members of the joined sequence are those of its parts.
LEMMA FlattenMembers ==
    ASSUME NEW S, NEW q \in Seq(Seq(S))
    PROVE  /\ FlattenSeq(q) \in Seq(S)
           /\ \A x : x \in Range(FlattenSeq(q)) <=> \E i \in 1 .. Len(q) : x \in Range(q[i])
<1> DEFINE n == Len(q)
<1>1. n \in Nat /\ q \in [1 .. n -> Seq(S)]
    BY LenProperties
<1>2. PICK g \in [0 .. n -> Seq(S)] :
         /\ g[0] = <<>> /\ FlattenSeq(q) = g[n]
         /\ \A i \in 1 .. n : g[i] = g[i - 1] \o q[i]
    BY FlattenIs
<1> DEFINE T == {k \in 0 .. n : \A x : x \in Range(g[k]) <=> \E i \in 1 .. k : x \in Range(q[i])}
<1> HIDE DEF n
<1>3. 0 \in T
    BY <1>1, <1>2 DEF Range
<1>4. ASSUME NEW k \in 0 .. n - 1, k \in T PROVE k + 1 \in T
    <2>1. k + 1 \in 1 .. n /\ (k + 1) - 1 = k /\ k + 1 \in 0 .. n /\ k \in 0 .. n
        BY <1>1, <1>4
    <2>2. g[k + 1] = g[k] \o q[k + 1] /\ g[k] \in Seq(S) /\ q[k + 1] \in Seq(S)
        BY <1>1, <1>2, <2>1
    <2>3. Range(g[k + 1]) = Range(g[k]) \cup Range(q[k + 1])
        BY <2>2, RangeConcatenation
    <2>4. \A i : i \in 1 .. k + 1 <=> i \in 1 .. k \/ i = k + 1
        BY <1>4, <1>1
    <2>5. \A x : x \in Range(g[k]) <=> \E i \in 1 .. k : x \in Range(q[i])
        BY <1>4
    <2>6. \A x : x \in Range(g[k + 1]) <=> \E i \in 1 .. k + 1 : x \in Range(q[i])
        BY <2>3, <2>4, <2>5
    <2> QED BY <2>1, <2>6
<1>5. \A k \in 0 .. n : k \in T
    <2> HIDE DEF T
    <2> QED BY <1>1, <1>3, <1>4, Climb
<1>6. n \in 0 .. n
    BY <1>1
<1> QED BY <1>2, <1>5, <1>6 DEF n

-----------------------------------------------------------------------------
(* Range lists.                                                            *)

\* An entry of a range list.
Ent == [begin : Int, end : Int, tag : MtrrType]

\* Entries in ascending order and disjoint; an entry may be empty.
Sorted(s) ==
    /\ \A e \in Range(s) : e.begin <= e.end + 1
    /\ \A i, j \in 1 .. Len(s) : i < j => s[i].end < s[j].begin

\* Page p lies in the entry.
On(e, p) == e.begin <= p /\ p <= e.end

\* The list gives page p the tag t.
Has(s, p, t) == \E e \in Range(s) : On(e, p) /\ e.tag = t

\* A range list.
List(s) == s \in Seq(Ent) /\ Sorted(s)

\* No entry is empty.
Solid(s) == \A e \in Range(s) : e.begin <= e.end

\* The entries lie within these pages.
Within(s, a, b) == \A e \in Range(s) : a <= e.begin /\ e.end < b

\* The entries have tags of T.
Tagged(s, T) == \A e \in Range(s) : e.tag \in T

\* The fields of an entry.
LEMMA EntryFields ==
    ASSUME NEW b, NEW e, NEW t
    PROVE  Entry(b, e, t).begin = b /\ Entry(b, e, t).end = e /\ Entry(b, e, t).tag = t
BY DEF Entry

\* An entry of a list.
LEMMA EntryIn ==
    ASSUME NEW b \in Int, NEW e \in Int, NEW t \in MtrrType
    PROVE  Entry(b, e, t) \in Ent
BY Zenon DEF Entry, Ent

\* What an entry is made of, and what is left of it after an assignment.
LEMMA EntForm ==
    ASSUME NEW r \in Ent
    PROVE  /\ r.begin \in Int /\ r.end \in Int /\ r.tag \in MtrrType
           /\ r = Entry(r.begin, r.end, r.tag)
           /\ \A x : /\ [r EXCEPT !.begin = x] = Entry(x, r.end, r.tag)
                     /\ [r EXCEPT !.end = x] = Entry(r.begin, x, r.tag)
                     /\ [r EXCEPT !.tag = x] = Entry(r.begin, r.end, x)
<1>1. r.begin \in Int /\ r.end \in Int /\ r.tag \in MtrrType
    BY DEF Ent
<1>2. r = Entry(r.begin, r.end, r.tag)
    BY DEF Ent, Entry
<1>3. PICK b, e, t : r = Entry(b, e, t)
    BY <1>2
<1>4. \A x : /\ [Entry(b, e, t) EXCEPT !.begin = x] = Entry(x, e, t)
             /\ [Entry(b, e, t) EXCEPT !.end = x] = Entry(b, x, t)
             /\ [Entry(b, e, t) EXCEPT !.tag = x] = Entry(b, e, x)
    BY DEF Entry
<1>5. r.begin = b /\ r.end = e /\ r.tag = t
    BY <1>3, EntryFields
<1> QED BY <1>1, <1>2, <1>3, <1>4, <1>5

\* The empty list.
LEMMA NoEntries ==
    /\ List(<<>>) /\ Solid(<<>>) /\ Range(<<>>) = {}
    /\ \A p, t : ~Has(<<>>, p, t)
<1>1. Range(<<>>) = {}
    BY DEF Range
<1>2. <<>> \in Seq(Ent) /\ Len(<<>>) = 0
    BY EmptySeq
<1> QED BY <1>1, <1>2 DEF List, Sorted, Solid, Has

\* Two entries of a list are the same one or lie apart.
LEMMA Apart ==
    ASSUME NEW s, List(s), NEW i \in 1 .. Len(s), NEW j \in 1 .. Len(s), i <= j
    PROVE  /\ s[i].begin \in Int /\ s[i].end \in Int /\ s[j].begin \in Int /\ s[j].end \in Int
           /\ s[i].begin <= s[i].end + 1
           /\ i # j => s[i].end < s[j].begin
           /\ s[i].begin <= s[j].begin /\ s[i].end <= s[j].end
<1>1. s[i] \in Ent /\ s[j] \in Ent /\ s[i] \in Range(s) /\ s[j] \in Range(s)
    BY Members DEF List
<1>2. /\ s[i].begin \in Int /\ s[i].end \in Int /\ s[j].begin \in Int /\ s[j].end \in Int
    BY <1>1, EntForm
<1>3. s[i].begin <= s[i].end + 1 /\ s[j].begin <= s[j].end + 1
    BY <1>1 DEF List, Sorted
<1>4. i # j => s[i].end < s[j].begin
    <2>1. i # j => i < j
        BY Members DEF List
    <2> QED BY <2>1 DEF List, Sorted
<1> QED BY <1>2, <1>3, <1>4

\* At most one entry is on a page.
LEMMA OnlyOne ==
    ASSUME NEW s, List(s), NEW p \in Int, NEW i \in 1 .. Len(s), NEW j \in 1 .. Len(s),
           On(s[i], p), On(s[j], p)
    PROVE  i = j
<1>0. i \in Nat /\ j \in Nat
    BY Members DEF List
<1>1. CASE i < j
    BY <1>0, <1>1, Apart DEF On
<1>2. CASE j < i
    BY <1>0, <1>2, Apart DEF On
<1> QED BY <1>0, <1>1, <1>2

\* A list gives a page one tag at most.
LEMMA OneTag ==
    ASSUME NEW s, List(s), NEW p \in Int, NEW t, NEW u, Has(s, p, t), Has(s, p, u)
    PROVE  t = u
<1>1. PICK i \in 1 .. Len(s) : On(s[i], p) /\ s[i].tag = t
    BY Members DEF Has, List
<1>2. PICK j \in 1 .. Len(s) : On(s[j], p) /\ s[j].tag = u
    BY Members DEF Has, List
<1>3. i = j
    BY <1>1, <1>2, OnlyOne
<1> QED BY <1>1, <1>2, <1>3

\* A list in front of another.
LEMMA JoinLists ==
    ASSUME NEW a, List(a), NEW b, List(b),
           \A x \in Range(a) : \A y \in Range(b) : x.end < y.begin
    PROVE  List(a \o b) /\ Range(a \o b) = Range(a) \cup Range(b)
<1>1. /\ a \in Seq(Ent) /\ b \in Seq(Ent) /\ a \o b \in Seq(Ent)
      /\ Len(a) \in Nat /\ Len(b) \in Nat /\ Len(a \o b) = Len(a) + Len(b)
    BY ConcatProperties, Members DEF List
<1>2. \A i \in 1 .. Len(a) + Len(b) :
         (a \o b)[i] = IF i <= Len(a) THEN a[i] ELSE b[i - Len(a)]
    BY <1>1, ConcatProperties
<1>3. Range(a \o b) = Range(a) \cup Range(b)
    BY <1>1, RangeConcatenation
<1>4. \A e \in Range(a \o b) : e.begin <= e.end + 1
    BY <1>3 DEF List, Sorted
<1>5. ASSUME NEW i \in 1 .. Len(a) + Len(b), NEW j \in 1 .. Len(a) + Len(b), i < j
      PROVE  (a \o b)[i].end < (a \o b)[j].begin
    <2>1. CASE j <= Len(a)
        <3>1. i \in 1 .. Len(a) /\ j \in 1 .. Len(a) /\ i <= Len(a)
            BY <1>1, <1>5, <2>1
        <3>2. (a \o b)[i] = a[i] /\ (a \o b)[j] = a[j]
            BY <1>2, <2>1, <3>1
        <3> QED BY <1>5, <3>1, <3>2 DEF List, Sorted
    <2>2. CASE ~(i <= Len(a))
        <3>1. /\ i - Len(a) \in 1 .. Len(b) /\ j - Len(a) \in 1 .. Len(b)
              /\ ~(j <= Len(a)) /\ i - Len(a) < j - Len(a)
            BY <1>1, <1>5, <2>2
        <3>2. (a \o b)[i] = b[i - Len(a)] /\ (a \o b)[j] = b[j - Len(a)]
            BY <1>2, <2>2, <3>1
        <3> QED BY <3>1, <3>2 DEF List, Sorted
    <2>3. CASE i <= Len(a) /\ ~(j <= Len(a))
        <3>1. i \in 1 .. Len(a) /\ j - Len(a) \in 1 .. Len(b)
            BY <1>1, <1>5, <2>3
        <3>2. (a \o b)[i] = a[i] /\ (a \o b)[j] = b[j - Len(a)]
            BY <1>2, <2>3, <3>1
        <3>3. a[i] \in Range(a) /\ b[j - Len(a)] \in Range(b)
            BY <1>1, <3>1, Members
        <3> QED BY <3>2, <3>3
    <2> QED BY <1>1, <2>1, <2>2, <2>3
<1> QED BY <1>1, <1>3, <1>4, <1>5 DEF List, Sorted

\* Lists in ascending order joined.
LEMMA FlattenLists ==
    ASSUME NEW q \in Seq(Seq(Ent)),
           \A i \in 1 .. Len(q) : Sorted(q[i]),
           \A i, j \in 1 .. Len(q) : i < j =>
              \A x \in Range(q[i]) : \A y \in Range(q[j]) : x.end < y.begin
    PROVE  List(FlattenSeq(q))
<1> DEFINE n == Len(q)
<1>1. n \in Nat /\ q \in [1 .. n -> Seq(Ent)]
    BY LenProperties
<1>2. PICK g \in [0 .. n -> Seq(Ent)] :
         /\ g[0] = <<>> /\ FlattenSeq(q) = g[n]
         /\ \A i \in 1 .. n : g[i] = g[i - 1] \o q[i]
    BY FlattenIs
<1> DEFINE T == {k \in 0 .. n : /\ List(g[k])
                                /\ \A x \in Range(g[k]) : \E i \in 1 .. k : x \in Range(q[i])}
<1>3. \A i, j \in 1 .. n : i < j =>
              \A x \in Range(q[i]) : \A y \in Range(q[j]) : x.end < y.begin
    OBVIOUS
<1>31. \A i \in 1 .. n : List(q[i])
    BY <1>1 DEF List
<1> HIDE DEF n
<1>4. 0 \in T
    BY <1>1, <1>2, NoEntries
<1>5. ASSUME NEW k \in 0 .. n - 1, k \in T PROVE k + 1 \in T
    <2>1. k + 1 \in 1 .. n /\ (k + 1) - 1 = k /\ k + 1 \in 0 .. n /\ k \in 0 .. n
        BY <1>1, <1>5
    <2>2. g[k + 1] = g[k] \o q[k + 1] /\ List(q[k + 1])
        BY <1>31, <1>2, <2>1
    <2>3. List(g[k]) /\ \A x \in Range(g[k]) : \E i \in 1 .. k : x \in Range(q[i])
        BY <1>5
    <2>4. \A i \in 1 .. k : i \in 1 .. n /\ i < k + 1 /\ i \in 1 .. k + 1
        BY <1>1, <1>5
    <2>5. \A x \in Range(g[k]) : \A y \in Range(q[k + 1]) : x.end < y.begin
        <3> TAKE x \in Range(g[k])
        <3>1. PICK i \in 1 .. k : x \in Range(q[i])
            BY <2>3
        <3> QED BY <1>3, <2>1, <2>4, <3>1
    <2>6. List(g[k + 1]) /\ Range(g[k + 1]) = Range(g[k]) \cup Range(q[k + 1])
        BY <2>2, <2>3, <2>5, JoinLists
    <2>7. k + 1 \in 1 .. k + 1
        BY <1>5
    <2>8. \A x \in Range(g[k + 1]) : \E i \in 1 .. k + 1 : x \in Range(q[i])
        BY <2>3, <2>4, <2>6, <2>7
    <2> QED BY <2>1, <2>6, <2>8
<1>6. \A k \in 0 .. n : k \in T
    <2> HIDE DEF T
    <2> QED BY <1>1, <1>4, <1>5, Climb
<1>7. n \in 0 .. n
    BY <1>1
<1> QED BY <1>2, <1>6, <1>7

-----------------------------------------------------------------------------
(* Merging.                                                                *)

\* Neighbours that touch have different tags.
Merged(s) == \A i \in 1 .. Len(s) - 1 : s[i].end + 1 = s[i+1].begin => s[i].tag # s[i+1].tag

\* One turn of the loop of merge_neighbor_entries.
Push(done, cur) ==
    IF done # <<>> /\ Merges(Last(done), cur)
    THEN Append(Front(done), [Last(done) EXCEPT !.end = cur.end])
    ELSE Append(done, cur)

\* The entries of a are made of those of b.
MadeOf(a, b) ==
    \A e \in a : \E x, y \in b :
        e.begin = x.begin /\ e.end = y.end /\ e.tag = x.tag

\* The front of a list and its last entry.
LEMMA FrontLast ==
    ASSUME NEW S, NEW s \in Seq(S), s # <<>>
    PROVE  /\ Len(s) \in Nat \ {0} /\ Last(s) = s[Len(s)] /\ Last(s) \in S
           /\ Last(s) \in Range(s)
           /\ Front(s) \in Seq(S) /\ Len(Front(s)) = Len(s) - 1
           /\ \A i \in 1 .. Len(s) - 1 : Front(s)[i] = s[i]
           /\ \A x : x \in Range(s) <=> x \in Range(Front(s)) \/ x = Last(s)
<1>1. Len(s) \in Nat \ {0}
    BY EmptySeq
<1>2. Len(s) \in 1 .. Len(s) /\ \A i \in 1 .. Len(s) - 1 : i \in 1 .. Len(s)
    BY <1>1
<1>3. Last(s) = s[Len(s)] /\ Last(s) \in S /\ Last(s) \in Range(s)
    BY <1>2, Members DEF Last
<1>4. \A i \in 1 .. Len(s) - 1 : s[i] \in S
    BY <1>2, Members
<1>5. /\ SubSeq(s, 1, Len(s) - 1) \in Seq(S)
      /\ Len(SubSeq(s, 1, Len(s) - 1)) =
            IF 1 <= Len(s) - 1 THEN Len(s) - 1 - 1 + 1 ELSE 0
      /\ \A i \in 1 .. Len(s) - 1 - 1 + 1 : SubSeq(s, 1, Len(s) - 1)[i] = s[1 + i - 1]
    <2>1. Len(s) - 1 \in Int
        BY <1>1
    <2> QED BY <1>4, <2>1, SubSeqProperties
<1>6. /\ Front(s) \in Seq(S) /\ Len(Front(s)) = Len(s) - 1
      /\ \A i \in 1 .. Len(s) - 1 : Front(s)[i] = s[i]
    <2>1. Len(s) - 1 - 1 + 1 = Len(s) - 1 /\ \A i \in 1 .. Len(s) - 1 : 1 + i - 1 = i
        BY <1>1
    <2>2. ~(1 <= Len(s) - 1) => Len(s) - 1 = 0
        <3>1. \A k \in Nat \ {0} : ~(1 <= k - 1) => k - 1 = 0
            OBVIOUS
        <3> QED BY ONLY <1>1, <3>1
    <2> QED BY <1>5, <2>1, <2>2 DEF Front
<1>7. \A x : x \in Range(Front(s)) <=> \E i \in 1 .. Len(s) - 1 : x = s[i]
    BY <1>6, Members
<1>8. \A i : i \in 1 .. Len(s) <=> i \in 1 .. Len(s) - 1 \/ i = Len(s)
    BY <1>1
<1>9. \A x : x \in Range(s) <=> x \in Range(Front(s)) \/ x = Last(s)
    BY <1>3, <1>7, <1>8, Members
<1> QED BY <1>1, <1>3, <1>6, <1>9

\* An entry behind a list.
LEMMA Behind ==
    ASSUME NEW s, List(s), NEW e \in Ent, e.begin <= e.end + 1,
           \A x \in Range(s) : x.end < e.begin
    PROVE  /\ List(Append(s, e)) /\ Len(Append(s, e)) = Len(s) + 1
           /\ \A i \in 1 .. Len(s) : Append(s, e)[i] = s[i]
           /\ Append(s, e)[Len(s) + 1] = e
           /\ \A x : x \in Range(Append(s, e)) <=> x \in Range(s) \/ x = e
<1>1. s \in Seq(Ent) /\ Len(s) \in Nat
    BY Members DEF List
<1>2. /\ Append(s, e) \in Seq(Ent) /\ Len(Append(s, e)) = Len(s) + 1
      /\ \A i \in 1 .. Len(s) : Append(s, e)[i] = s[i]
      /\ Append(s, e)[Len(s) + 1] = e
    BY <1>1, AppendProperties
<1>3. \A i : i \in 1 .. Len(s) + 1 <=> i \in 1 .. Len(s) \/ i = Len(s) + 1
    BY <1>1
<1>4. \A x : x \in Range(Append(s, e)) <=> x \in Range(s) \/ x = e
    <2>1. \A x : x \in Range(s) <=> \E i \in 1 .. Len(s) : x = s[i]
        BY <1>1, Members
    <2>2. \A x : x \in Range(Append(s, e)) <=>
                    \E i \in 1 .. Len(s) + 1 : x = Append(s, e)[i]
        <3>1. \A x : x \in Range(Append(s, e)) <=>
                       \E i \in 1 .. Len(Append(s, e)) : x = Append(s, e)[i]
            BY <1>2, Members
        <3> QED BY <1>2, <3>1
    <2> QED BY <1>2, <1>3, <2>1, <2>2
<1>5. ASSUME NEW i \in 1 .. Len(s) + 1, NEW j \in 1 .. Len(s) + 1, i < j
      PROVE  Append(s, e)[i].end < Append(s, e)[j].begin
    <2>1. i \in 1 .. Len(s)
        BY <1>1, <1>5
    <2>2. CASE j \in 1 .. Len(s)
        BY <1>2, <1>5, <2>1, <2>2 DEF List, Sorted
    <2>3. CASE j = Len(s) + 1
        <3>1. s[i] \in Range(s)
            BY <1>1, <2>1, Members
        <3> QED BY <1>2, <2>1, <2>3, <3>1
    <2> QED BY <1>3, <2>2, <2>3
<1> QED BY <1>2, <1>4, <1>5 DEF List, Sorted

\* A turn of the loop stays among sequences of entries.
LEMMA PushType ==
    ASSUME NEW s \in Seq(Ent), NEW cur \in Ent
    PROVE  Push(s, cur) \in Seq(Ent)
<1>1. CASE s # <<>> /\ Merges(Last(s), cur)
    <2>1. Front(s) \in Seq(Ent) /\ Last(s) \in Ent
        BY <1>1, FrontLast
    <2>2. [Last(s) EXCEPT !.end = cur.end] \in Ent
        <3>1. Last(s).begin \in Int /\ Last(s).tag \in MtrrType /\ cur.end \in Int
              /\ [Last(s) EXCEPT !.end = cur.end] = Entry(Last(s).begin, cur.end, Last(s).tag)
            BY <2>1, EntForm
        <3> QED BY <3>1, EntryIn
    <2> QED BY <1>1, <2>1, <2>2, AppendProperties DEF Push
<1>2. CASE ~(s # <<>> /\ Merges(Last(s), cur))
    BY <1>2, AppendProperties DEF Push
<1> QED BY <1>1, <1>2

\* A turn of the loop adds the pages of an entry to what has been merged.
LEMMA PushRight ==
    ASSUME NEW s, List(s), Merged(s), NEW cur \in Ent, cur.begin <= cur.end + 1,
           \A x \in Range(s) : x.end < cur.begin
    PROVE  /\ List(Push(s, cur)) /\ Merged(Push(s, cur))
           /\ \A p \in Int : \A t : Has(Push(s, cur), p, t) <=>
                 Has(s, p, t) \/ (On(cur, p) /\ cur.tag = t)
           /\ \A x \in Range(Push(s, cur)) : x.end <= cur.end
           /\ MadeOf(Range(Push(s, cur)), Range(s) \cup {cur})
           /\ Solid(s) /\ cur.begin <= cur.end => Solid(Push(s, cur))
<1>0. cur.begin \in Int /\ cur.end \in Int /\ s \in Seq(Ent) /\ Len(s) \in Nat
    BY EntForm, Members DEF List
<1>00. \A x \in Range(s) : x \in Ent /\ x.begin \in Int /\ x.end \in Int /\ x.end <= cur.end
    <2> TAKE x \in Range(s)
    <2>1. x \in Ent
        BY <1>0, Members
    <2>2. x.begin \in Int /\ x.end \in Int
        BY <2>1, EntForm
    <2> QED BY <1>0, <2>1, <2>2
<1>1. CASE s # <<>> /\ Merges(Last(s), cur)
    <2> DEFINE f == Front(s)
               l == Last(s)
               e == [l EXCEPT !.end = cur.end]
               n == Len(f)
    <2>1. /\ Len(s) = n + 1 /\ n \in Nat /\ l = s[n + 1] /\ l \in Ent /\ l \in Range(s)
          /\ f \in Seq(Ent)
          /\ \A i \in 1 .. n : f[i] = s[i]
          /\ \A x : x \in Range(s) <=> x \in Range(f) \/ x = l
        <3>1. /\ Len(s) \in Nat \ {0} /\ Last(s) = s[Len(s)] /\ Last(s) \in Ent
              /\ Last(s) \in Range(s)
              /\ Front(s) \in Seq(Ent) /\ Len(Front(s)) = Len(s) - 1
              /\ \A i \in 1 .. Len(s) - 1 : Front(s)[i] = s[i]
              /\ \A x : x \in Range(s) <=> x \in Range(Front(s)) \/ x = Last(s)
            BY <1>0, <1>1, FrontLast
        <3>2. Len(s) = n + 1 /\ n \in Nat
            BY <3>1
        <3> QED BY <3>1, <3>2
    <2>2. /\ e = Entry(l.begin, cur.end, l.tag) /\ e.begin = l.begin /\ e.end = cur.end
          /\ e.tag = l.tag /\ e \in Ent /\ l.begin \in Int /\ l.end \in Int
        <3>1. l.begin \in Int /\ l.end \in Int /\ l.tag \in MtrrType
              /\ e = Entry(l.begin, cur.end, l.tag)
            BY <2>1, EntForm
        <3>2. e \in Ent
            BY <1>0, <3>1, EntryIn
        <3> QED BY <3>1, <3>2, EntryFields
    <2>3. Push(s, cur) = Append(f, e)
        BY <1>1 DEF Push
    <2>4. l.end + 1 = cur.begin /\ l.tag = cur.tag /\ l.end < cur.begin
        <3>1. l.end < cur.begin
            BY <2>1
        <3>2. l.end + 1 >= cur.begin /\ l.tag = cur.tag
            BY <1>1 DEF Merges, range_entry_end
        <3> QED BY <1>0, <2>2, <3>1, <3>2
    <2> HIDE DEF e, f, l, n
    <2>5. n + 1 \in 1 .. Len(s) /\ \A i \in 1 .. n : i \in 1 .. Len(s) /\ i < n + 1
        BY <2>1
    <2>6. List(f)
        <3>1. \A x \in Range(f) : x.begin <= x.end + 1
            BY <2>1 DEF List, Sorted
        <3>2. \A i, j \in 1 .. n : i < j => f[i].end < f[j].begin
            BY <2>1, <2>5 DEF List, Sorted
        <3> QED BY <2>1, <3>1, <3>2 DEF List, Sorted, n
    <2>7. \A x \in Range(f) : x.end < e.begin
        <3> TAKE x \in Range(f)
        <3>1. PICK i \in 1 .. n : x = f[i]
            BY <2>1, Members DEF n
        <3>2. s[i].end < s[n + 1].begin
            BY <2>5 DEF List, Sorted
        <3> QED BY <2>1, <2>2, <3>1, <3>2
    <2>8. e.begin <= e.end + 1 /\ l.begin <= l.end + 1
        <3>1. l.begin <= l.end + 1
            BY <2>1 DEF List, Sorted
        <3> QED BY <1>0, <2>2, <2>4, <3>1
    <2>9. /\ List(Append(f, e)) /\ Len(Append(f, e)) = n + 1
          /\ \A i \in 1 .. n : Append(f, e)[i] = f[i]
          /\ Append(f, e)[n + 1] = e
          /\ \A x : x \in Range(Append(f, e)) <=> x \in Range(f) \/ x = e
        BY <2>2, <2>6, <2>7, <2>8, Behind DEF n
    <2>10. Merged(Append(f, e))
        <3>1. ASSUME NEW i \in 1 .. (n + 1) - 1,
                     Append(f, e)[i].end + 1 = Append(f, e)[i + 1].begin
              PROVE  Append(f, e)[i].tag # Append(f, e)[i + 1].tag
            <4>1. i \in 1 .. n /\ i \in 1 .. Len(s) - 1 /\ i \in Nat
                  /\ (i + 1 \in 1 .. n \/ i + 1 = n + 1)
                BY <2>1, <3>1
            <4>2. Append(f, e)[i] = s[i]
                BY <2>1, <2>9, <4>1
            <4>3. Append(f, e)[i + 1].begin = s[i + 1].begin
                  /\ Append(f, e)[i + 1].tag = s[i + 1].tag
                <5>1. CASE i + 1 \in 1 .. n
                    BY <5>1, <2>1, <2>9
                <5>2. CASE i + 1 = n + 1
                    BY <5>2, <2>1, <2>2, <2>9
                <5> QED BY <4>1, <5>1, <5>2
            <4> QED BY <3>1, <4>1, <4>2, <4>3 DEF Merged
        <3> QED BY <2>9, <3>1 DEF Merged
    <2>11. ASSUME NEW p \in Int, NEW t
           PROVE  Has(Push(s, cur), p, t) <=> Has(s, p, t) \/ (On(cur, p) /\ cur.tag = t)
        <3>1. On(e, p) <=> On(l, p) \/ On(cur, p)
            BY <1>0, <2>2, <2>4, <2>8 DEF On
        <3>2. e.tag = l.tag /\ e.tag = cur.tag
            BY <2>2, <2>4
        <3> QED BY <2>1, <2>3, <2>9, <3>1, <3>2 DEF Has
    <2>12. \A x \in Range(Push(s, cur)) : x.end <= cur.end
        BY <1>0, <1>00, <2>1, <2>2, <2>3, <2>9
    <2>13. MadeOf(Range(Push(s, cur)), Range(s) \cup {cur})
        <3> SUFFICES ASSUME NEW x \in Range(Push(s, cur))
                     PROVE  \E y, z \in Range(s) \cup {cur} :
                              x.begin = y.begin /\ x.end = z.end /\ x.tag = y.tag
            BY DEF MadeOf
        <3>1. CASE x = e
            BY <2>1, <2>2, <3>1
        <3>2. CASE x # e
            BY <2>1, <2>3, <2>9, <3>2
        <3> QED BY <3>1, <3>2
    <2>14. ASSUME Solid(s), cur.begin <= cur.end PROVE Solid(Push(s, cur))
        <3>1. l.begin <= l.end
            BY <2>1, <2>14 DEF Solid
        <3>2. e.begin <= e.end
            BY <1>0, <2>2, <2>4, <2>14, <3>1
        <3> QED BY <2>1, <2>3, <2>9, <2>14, <3>2 DEF Solid
    <2> QED BY <2>3, <2>9, <2>10, <2>11, <2>12, <2>13, <2>14
<1>2. CASE ~(s # <<>> /\ Merges(Last(s), cur))
    <2>1. Push(s, cur) = Append(s, cur)
        BY <1>2 DEF Push
    <2> DEFINE n == Len(s)
               a == Append(s, cur)
    <2>2. /\ List(a) /\ Len(a) = n + 1
          /\ \A i \in 1 .. n : a[i] = s[i]
          /\ a[n + 1] = cur
          /\ \A x : x \in Range(a) <=> x \in Range(s) \/ x = cur
        BY Behind
    <2>3. Merged(a)
        <3> HIDE DEF a
        <3>1. ASSUME NEW i \in 1 .. (n + 1) - 1, a[i].end + 1 = a[i + 1].begin
              PROVE  a[i].tag # a[i + 1].tag
            <4>1. /\ i \in 1 .. n /\ i \in Nat
                  /\ (i + 1 \in 1 .. n /\ i \in 1 .. n - 1) \/ (i + 1 = n + 1 /\ i = n)
                BY <1>0, <3>1
            <4>2. CASE i + 1 \in 1 .. n /\ i \in 1 .. n - 1
                BY <2>2, <3>1, <4>1, <4>2 DEF Merged
            <4>3. CASE i + 1 = n + 1 /\ i = n
                <5>1. s # <<>> /\ Last(s) = s[n]
                    <6>1. n # 0
                        BY <1>0, <4>1
                    <6> QED BY <6>1, EmptySeq DEF Last
                <5>2. a[i] = s[n] /\ a[i + 1] = cur
                    BY <2>2, <4>1, <4>3
                <5>3. s[n] \in Range(s)
                    BY <1>0, <4>1, <4>3, Members
                <5>4. s[n].end + 1 >= cur.begin
                    BY <1>0, <1>00, <5>2, <5>3, <3>1
                <5> QED BY <1>2, <5>1, <5>2, <5>4 DEF Merges, range_entry_end
            <4> QED BY <4>1, <4>2, <4>3
        <3> QED BY <2>2, <3>1 DEF Merged
    <2>4. ASSUME NEW p \in Int, NEW t
          PROVE  Has(a, p, t) <=> Has(s, p, t) \/ (On(cur, p) /\ cur.tag = t)
        BY <2>2 DEF Has
    <2>5. \A x \in Range(a) : x.end <= cur.end
        BY <1>0, <1>00, <2>2
    <2>6. MadeOf(Range(a), Range(s) \cup {cur})
        BY <2>2 DEF MadeOf
    <2>7. Solid(s) /\ cur.begin <= cur.end => Solid(a)
        BY <2>2 DEF Solid
    <2> QED BY <2>1, <2>2, <2>3, <2>4, <2>5, <2>6, <2>7
<1> QED BY <1>1, <1>2

\* What has been merged after n turns.
MergeFn(r) ==
    CHOOSE f : f = [n \in 0 .. Len(r) |->
          IF n = 0 THEN <<>>
          ELSE IF f[n-1] # <<>> /\ Merges(Last(f[n-1]), r[n])
               THEN Append(Front(f[n-1]), [Last(f[n-1]) EXCEPT !.end = r[n].end])
               ELSE Append(f[n-1], r[n])]

\* merge_neighbor_entries takes the entries one by one.
LEMMA MergeIs ==
    ASSUME NEW r \in Seq(Ent)
    PROVE  \E m \in [0 .. Len(r) -> Seq(Ent)] :
              /\ m[0] = <<>> /\ merge_neighbor_entries(r) = m[Len(r)]
              /\ \A i \in 1 .. Len(r) : m[i] = Push(m[i - 1], r[i])
<1> DEFINE n == Len(r)
           G == [i \in 1 .. n |-> [x \in Seq(Ent) |-> Push(x, r[i])]]
           Eq(f) == f = [i \in 0 .. Len(r) |->
                IF i = 0 THEN <<>>
                ELSE IF f[i-1] # <<>> /\ Merges(Last(f[i-1]), r[i])
                     THEN Append(Front(f[i-1]), [Last(f[i-1]) EXCEPT !.end = r[i].end])
                     ELSE Append(f[i-1], r[i])]
           m == MergeFn(r)
<1>1. n \in Nat /\ \A i \in 1 .. n : r[i] \in Ent
    BY Members
<1>2. <<>> \in Seq(Ent)
    BY EmptySeq
<1>3. G \in [1 .. n -> [Seq(Ent) -> Seq(Ent)]]
    BY <1>1, PushType
<1> HIDE DEF n
<1>4. PICK g \in [0 .. n -> Seq(Ent)] : Grows(g, n, <<>>, G)
    <2> HIDE DEF G
    <2> QED BY <1>1, <1>2, <1>3, GrowsExists
<1>5. g[0] = <<>> /\ \A i \in 1 .. n : g[i] = Push(g[i - 1], r[i])
    <2>1. g[0] = <<>>
        BY <1>1, <1>4 DEF Grows
    <2>2. ASSUME NEW i \in 1 .. n PROVE g[i] = Push(g[i - 1], r[i])
        <3>1. i \in 0 .. n /\ i # 0 /\ i - 1 \in 0 .. n
            BY <1>1
        <3>2. g[i] = G[i][g[i - 1]] /\ g[i - 1] \in Seq(Ent)
            BY <1>4, <3>1 DEF Grows
        <3> QED BY <3>2
    <2> QED BY <2>1, <2>2
<1> HIDE DEF G
<1>6. \A i \in 0 .. n : g[i] = IF i = 0 THEN <<>> ELSE Push(g[i - 1], r[i])
    <2> TAKE i \in 0 .. n
    <2>1. i # 0 => i \in 1 .. n
        BY <1>1
    <2> QED BY <1>5, <2>1
<1>7. Eq(g)
    <2>1. g = [i \in 0 .. Len(r) |-> IF i = 0 THEN <<>> ELSE Push(g[i - 1], r[i])]
        BY <1>6 DEF n
    <2> QED BY <2>1 DEF Push
<1>8. Eq(m)
    BY <1>7, Zenon DEF MergeFn
<1>9. merge_neighbor_entries(r) = m[n]
    BY DEF merge_neighbor_entries, MergeFn, n
<1> HIDE DEF m
<1>10. \A i \in 0 .. n : m[i] = IF i = 0 THEN <<>> ELSE Push(m[i - 1], r[i])
    <2>1. m = [i \in 0 .. n |-> IF i = 0 THEN <<>> ELSE Push(m[i - 1], r[i])]
        BY <1>8, Zenon DEF n, Push
    <2> QED BY ONLY <2>1
<1> DEFINE T == {i \in 0 .. n : m[i] = g[i]}
<1>11. 0 \in T
    <2>1. 0 \in 0 .. n
        BY <1>1
    <2>2. m[0] = <<>> /\ g[0] = <<>>
        BY ONLY <1>6, <1>10, <2>1
    <2> QED BY <2>1, <2>2
<1>12. ASSUME NEW i \in 0 .. n - 1, i \in T PROVE i + 1 \in T
    <2>1. i + 1 \in 0 .. n /\ (i + 1) - 1 = i /\ i + 1 # 0 /\ m[i] = g[i]
        BY <1>1, <1>12
    <2>2. m[i + 1] = Push(m[(i + 1) - 1], r[i + 1]) /\ g[i + 1] = Push(g[(i + 1) - 1], r[i + 1])
        BY <1>6, <1>10, <2>1
    <2> QED BY <2>1, <2>2
<1>13. \A i \in 0 .. n : i \in T
    <2> HIDE DEF T
    <2> QED BY <1>1, <1>11, <1>12, Climb
<1>14. m[n] = g[n]
    BY <1>1, <1>13
<1> QED BY <1>4, <1>5, <1>9, <1>14 DEF n

\* Merging leaves every page its tag.
LEMMA MergeRight ==
    ASSUME NEW r, List(r)
    PROVE  /\ List(merge_neighbor_entries(r)) /\ Merged(merge_neighbor_entries(r))
           /\ \A p \in Int : \A t : Has(merge_neighbor_entries(r), p, t) <=> Has(r, p, t)
           /\ MadeOf(Range(merge_neighbor_entries(r)), Range(r))
           /\ Solid(r) => Solid(merge_neighbor_entries(r))
<1> DEFINE n == Len(r)
<1>1. n \in Nat /\ \A i \in 1 .. n : r[i] \in Ent /\ r[i] \in Range(r)
    BY Members DEF List
<1>2. PICK m \in [0 .. n -> Seq(Ent)] :
         /\ m[0] = <<>> /\ merge_neighbor_entries(r) = m[n]
         /\ \A i \in 1 .. n : m[i] = Push(m[i - 1], r[i])
    BY MergeIs DEF List
<1> DEFINE T == {k \in 0 .. n :
                   /\ List(m[k]) /\ Merged(m[k])
                   /\ \A p \in Int : \A t : Has(m[k], p, t) <=>
                        \E i \in 1 .. k : On(r[i], p) /\ r[i].tag = t
                   /\ MadeOf(Range(m[k]), Range(r))
                   /\ \A x \in Range(m[k]) : \E i \in 1 .. k : x.end <= r[i].end
                   /\ Solid(r) => Solid(m[k])}
<1>3. \A x : x \in Range(r) <=> \E i \in 1 .. n : x = r[i]
    BY Members DEF List
<1> HIDE DEF n
<1>4. 0 \in T
    <2>1. Merged(<<>>)
        BY DEF Merged
    <2>2. \A i : i \notin 1 .. 0
        OBVIOUS
    <2> QED BY <1>1, <1>2, <2>1, <2>2, NoEntries DEF MadeOf
<1>5. ASSUME NEW k \in 0 .. n - 1, k \in T PROVE k + 1 \in T
    <2> DEFINE K == k + 1
               cur == r[K]
               s == m[k]
    <2>1. K \in 1 .. n /\ K - 1 = k /\ K \in 0 .. n /\ K \in 1 .. K
          /\ \A i \in 1 .. k : i \in 1 .. n /\ i < K /\ i \in 1 .. K
        BY <1>1, <1>5
    <2>2. m[K] = Push(s, cur) /\ cur \in Ent /\ cur \in Range(r)
        BY <1>1, <1>2, <2>1
    <2>3. /\ List(s) /\ Merged(s)
          /\ \A p \in Int : \A t : Has(s, p, t) <=>
                        \E i \in 1 .. k : On(r[i], p) /\ r[i].tag = t
          /\ MadeOf(Range(s), Range(r))
          /\ \A x \in Range(s) : \E i \in 1 .. k : x.end <= r[i].end
          /\ Solid(r) => Solid(s)
        BY <1>5
    <2>4. \A i : i \in 1 .. K <=> i \in 1 .. k \/ i = K
        BY <1>5, <1>1
    <2>5. cur.begin <= cur.end + 1 /\ (Solid(r) => cur.begin <= cur.end)
        BY <2>2 DEF List, Sorted, Solid
    <2> HIDE DEF K, s
    <2>6. \A x \in Range(s) : x.end < cur.begin
        <3> TAKE x \in Range(s)
        <3>1. PICK i \in 1 .. k : x.end <= r[i].end
            BY <2>3
        <3>2. r[i].end < cur.begin
            <4>1. i \in 1 .. n /\ K \in 1 .. n /\ i < K
                BY <2>1
            <4> QED BY <4>1 DEF List, Sorted, n
        <3>3. x.end \in Int /\ r[i].end \in Int /\ cur.begin \in Int
            <4>0. s \in Seq(Ent)
                BY <2>3 DEF List
            <4>1. x \in Ent /\ r[i] \in Ent
                BY <1>1, <2>1, <4>0, Members
            <4> QED BY <4>1, <2>2, EntForm
        <3> QED BY <3>1, <3>2, <3>3
    <2>7. /\ List(m[K]) /\ Merged(m[K])
          /\ \A p \in Int : \A t : Has(m[K], p, t) <=>
                 Has(s, p, t) \/ (On(cur, p) /\ cur.tag = t)
          /\ \A x \in Range(m[K]) : x.end <= cur.end
          /\ MadeOf(Range(m[K]), Range(s) \cup {cur})
          /\ Solid(s) /\ cur.begin <= cur.end => Solid(m[K])
        <3> HIDE DEF cur
        <3>1. /\ List(Push(s, cur)) /\ Merged(Push(s, cur))
              /\ \A p \in Int : \A t : Has(Push(s, cur), p, t) <=>
                    Has(s, p, t) \/ (On(cur, p) /\ cur.tag = t)
              /\ \A x \in Range(Push(s, cur)) : x.end <= cur.end
              /\ MadeOf(Range(Push(s, cur)), Range(s) \cup {cur})
              /\ Solid(s) /\ cur.begin <= cur.end => Solid(Push(s, cur))
            <4>1. List(s) /\ Merged(s)
                BY <2>3
            <4> QED BY ONLY <2>2, <4>1, <2>5, <2>6, PushRight
        <3> QED BY <2>2, <3>1
    <2>8. \A p \in Int : \A t : Has(m[K], p, t) <=> \E i \in 1 .. K : On(r[i], p) /\ r[i].tag = t
        BY <2>3, <2>4, <2>7
    <2>9. \A x \in Range(m[K]) : \E i \in 1 .. K : x.end <= r[i].end
        BY <2>1, <2>7
    <2>10. MadeOf(Range(m[K]), Range(r))
        <3> SUFFICES ASSUME NEW e \in Range(m[K])
                     PROVE  \E x, y \in Range(r) :
                              e.begin = x.begin /\ e.end = y.end /\ e.tag = x.tag
            BY DEF MadeOf
        <3>1. PICK x \in Range(s) \cup {cur}, y \in Range(s) \cup {cur} :
                  e.begin = x.begin /\ e.end = y.end /\ e.tag = x.tag
            BY <2>7 DEF MadeOf
        <3>2. PICK a \in Range(r) : x.begin = a.begin /\ x.tag = a.tag
            BY <2>2, <2>3 DEF MadeOf
        <3>3. PICK b \in Range(r) : y.end = b.end
            BY <2>2, <2>3 DEF MadeOf
        <3> QED BY <3>1, <3>2, <3>3
    <2>11. Solid(r) => Solid(m[K])
        BY <2>3, <2>5, <2>7
    <2>12. K \in T
        BY <2>1, <2>7, <2>8, <2>9, <2>10, <2>11
    <2> QED BY <2>12 DEF K
<1>6. \A k \in 0 .. n : k \in T
    <2> HIDE DEF T
    <2> QED BY <1>1, <1>4, <1>5, Climb
<1>7. n \in 0 .. n /\ n \in T
    BY <1>1, <1>6
<1>8. ASSUME NEW p \in Int, NEW t PROVE Has(m[n], p, t) <=> Has(r, p, t)
    <2>1. Has(m[n], p, t) <=> \E i \in 1 .. n : On(r[i], p) /\ r[i].tag = t
        BY <1>7
    <2> QED BY <1>3, <2>1 DEF Has
<1> QED BY <1>2, <1>7, <1>8

-----------------------------------------------------------------------------
(* Removing and adding.                                                    *)

\* A list of one entry.
LEMMA OneEntry ==
    ASSUME NEW e \in Ent, e.begin <= e.end + 1
    PROVE  List(<<e>>) /\ Range(<<e>>) = {e} /\ <<e>> \in Seq(Ent)
<1>1. <<e>> \in Seq(Ent) /\ Len(<<e>>) = 1 /\ <<e>>[1] = e
    OBVIOUS
<1>2. Range(<<e>>) = {e}
    <2>1. DOMAIN <<e>> = {1}
        OBVIOUS
    <2> QED BY <1>1, <2>1 DEF Range
<1> QED BY <1>1, <1>2 DEF List, Sorted

\* A part of a list.
LEMMA SubList ==
    ASSUME NEW s, List(s), NEW a \in Nat \ {0}, NEW c \in Int, c <= Len(s)
    PROVE  /\ List(SubSeq(s, a, c))
           /\ \A x : x \in Range(SubSeq(s, a, c)) <=> \E i \in a .. c : x = s[i]
<1> DEFINE q == SubSeq(s, a, c)
<1>0. Len(s) \in Nat /\ s \in Seq(Ent)
    BY Members DEF List
<1>1. \A i \in a .. c : i \in 1 .. Len(s) /\ s[i] \in Ent
    BY <1>0, Members
<1>2. /\ q \in Seq(Ent)
      /\ Len(q) = IF a <= c THEN c - a + 1 ELSE 0
      /\ \A i \in 1 .. c - a + 1 : q[i] = s[a + i - 1]
    BY <1>1, SubSeqProperties
<1> HIDE DEF q
<1>3. \A i \in 1 .. Len(q) : a + i - 1 \in a .. c /\ i \in 1 .. c - a + 1
    BY <1>2
<1>4. \A i \in a .. c : i - a + 1 \in 1 .. Len(q) /\ a + (i - a + 1) - 1 = i
    BY <1>2
<1>5. \A x : x \in Range(q) <=> \E i \in 1 .. Len(q) : x = q[i]
    BY <1>2, Members
<1>6. \A x : x \in Range(q) <=> \E i \in a .. c : x = s[i]
    <2> TAKE x
    <2>1. ASSUME x \in Range(q) PROVE \E i \in a .. c : x = s[i]
        <3>1. PICK i \in 1 .. Len(q) : x = q[i]
            BY <1>5, <2>1
        <3> QED BY <1>2, <1>3, <3>1
    <2>2. ASSUME NEW i \in a .. c, x = s[i] PROVE x \in Range(q)
        <3>1. PICK j \in 1 .. Len(q) : a + j - 1 = i
            BY <1>4
        <3> QED BY <1>2, <1>3, <1>5, <2>2, <3>1
    <2> QED BY <2>1, <2>2
<1>7. \A x \in Range(q) : x.begin <= x.end + 1
    <2> TAKE x \in Range(q)
    <2>1. x \in Range(s)
        BY <1>0, <1>1, <1>6, Members
    <2> QED BY <2>1 DEF List, Sorted
<1>8. ASSUME NEW i \in 1 .. Len(q), NEW j \in 1 .. Len(q), i < j PROVE q[i].end < q[j].begin
    <2>1. /\ a + i - 1 \in 1 .. Len(s) /\ a + j - 1 \in 1 .. Len(s)
          /\ a + i - 1 < a + j - 1
        <3>1. a + i - 1 < a + j - 1
            BY <1>2, <1>8
        <3> QED BY <1>1, <1>3, <3>1
    <2>2. q[i] = s[a + i - 1] /\ q[j] = s[a + j - 1]
        BY <1>2, <1>3
    <2> QED BY <2>1, <2>2 DEF List, Sorted
<1> QED BY <1>2, <1>6, <1>7, <1>8 DEF List, Sorted, q

\* What is left of one entry.
LEMMA LeftoverRight ==
    ASSUME NEW cur \in Ent, cur.begin <= cur.end + 1, NEW b \in Int, NEW e \in Int, b <= e
    PROVE  /\ List(Leftover(cur, b, e)) /\ Leftover(cur, b, e) \in Seq(Ent)
           /\ \A x \in Range(Leftover(cur, b, e)) :
                 /\ x.begin \in Int /\ x.end \in Int
                 /\ cur.begin <= x.begin /\ x.end <= cur.end /\ x.tag = cur.tag
                 /\ x.end < b \/ x.begin > e
                 /\ cur.begin <= cur.end => x.begin <= x.end
           /\ \A p \in Int : (\E x \in Range(Leftover(cur, b, e)) : On(x, p)) <=>
                 On(cur, p) /\ ~(b <= p /\ p <= e)
<1>0. cur.begin \in Int /\ cur.end \in Int /\ cur.tag \in MtrrType
    BY EntForm
<1>1. CASE e < cur.begin \/ b > cur.end
    <2>1. Leftover(cur, b, e) = <<cur>>
        BY <1>1 DEF Leftover
    <2>2. List(<<cur>>) /\ Range(<<cur>>) = {cur} /\ <<cur>> \in Seq(Ent)
        BY OneEntry
    <2> QED BY <1>0, <1>1, <2>1, <2>2 DEF On
<1>2. CASE ~(e < cur.begin \/ b > cur.end)
    <2> DEFINE f == Entry(cur.begin, b - 1, cur.tag)
               g == Entry(e + 1, cur.end, cur.tag)
               F == IF b > cur.begin THEN <<f>> ELSE <<>>
               H == IF e < cur.end THEN <<g>> ELSE <<>>
    <2>1. Leftover(cur, b, e) = F \o H
        BY <1>2, EntForm DEF Leftover
    <2>2. /\ f.begin = cur.begin /\ f.end = b - 1 /\ f.tag = cur.tag /\ f \in Ent
          /\ g.begin = e + 1 /\ g.end = cur.end /\ g.tag = cur.tag /\ g \in Ent
        <3>1. b - 1 \in Int /\ e + 1 \in Int
            OBVIOUS
        <3> QED BY <1>0, <3>1, EntryFields, EntryIn
    <2> HIDE DEF f, g
    <2>3. List(F) /\ (\A x : x \in Range(F) <=> x = f /\ b > cur.begin)
        <3>1. CASE b > cur.begin
            <4>1. f.begin <= f.end + 1
                BY <1>0, <2>2, <3>1
            <4> QED BY <2>2, <3>1, <4>1, OneEntry
        <3>2. CASE ~(b > cur.begin)
            BY <3>2, NoEntries
        <3> QED BY <3>1, <3>2
    <2>4. List(H) /\ (\A x : x \in Range(H) <=> x = g /\ e < cur.end)
        <3>1. CASE e < cur.end
            <4>1. g.begin <= g.end + 1
                BY <1>0, <2>2, <3>1
            <4> QED BY <2>2, <3>1, <4>1, OneEntry
        <3>2. CASE ~(e < cur.end)
            BY <3>2, NoEntries
        <3> QED BY <3>1, <3>2
    <2> HIDE DEF F, H
    <2>5. f.end < g.begin
        BY <2>2
    <2>6. List(F \o H) /\ Range(F \o H) = Range(F) \cup Range(H)
        BY <2>3, <2>4, <2>5, JoinLists
    <2>7. \A x : x \in Range(F \o H) <=> (x = f /\ b > cur.begin) \/ (x = g /\ e < cur.end)
        BY <2>3, <2>4, <2>6
    <2>8. ASSUME NEW x \in Range(F \o H)
          PROVE  /\ x.begin \in Int /\ x.end \in Int
                 /\ cur.begin <= x.begin /\ x.end <= cur.end /\ x.tag = cur.tag
                 /\ x.end < b \/ x.begin > e
                 /\ cur.begin <= cur.end => x.begin <= x.end
        <3>1. CASE x = f /\ b > cur.begin
            BY <1>0, <1>2, <2>2, <3>1
        <3>2. CASE x = g /\ e < cur.end
            BY <1>0, <1>2, <2>2, <3>2
        <3> QED BY <2>7, <3>1, <3>2
    <2>9. ASSUME NEW p \in Int
          PROVE  (\E x \in Range(F \o H) : On(x, p)) <=> On(cur, p) /\ ~(b <= p /\ p <= e)
        <3>1. (\E x \in Range(F \o H) : On(x, p)) <=>
                (On(f, p) /\ b > cur.begin) \/ (On(g, p) /\ e < cur.end)
            BY <2>7
        <3>2. On(f, p) <=> cur.begin <= p /\ p <= b - 1
            BY <2>2 DEF On
        <3>3. On(g, p) <=> e + 1 <= p /\ p <= cur.end
            BY <2>2 DEF On
        <3> QED BY <1>0, <1>2, <3>1, <3>2, <3>3 DEF On
    <2> QED BY <2>1, <2>6, <2>8, <2>9 DEF List
<1> QED BY <1>1, <1>2

\* What remove_memranges leaves: the pages outside begin .. end.
LEMMA RemoveRight ==
    ASSUME NEW s, List(s), NEW b \in Int, NEW e \in Int, b <= e
    PROVE  /\ List(remove_memranges(s, b, e))
           /\ \A p \in Int : \A t : Has(remove_memranges(s, b, e), p, t) <=>
                 Has(s, p, t) /\ ~(b <= p /\ p <= e)
           /\ \A x \in Range(remove_memranges(s, b, e)) :
                 /\ x.end < b \/ x.begin > e
                 /\ \E y \in Range(s) : y.begin <= x.begin /\ x.end <= y.end /\ x.tag = y.tag
           /\ Solid(s) => Solid(remove_memranges(s, b, e))
<1> DEFINE n == Len(s)
           q == [i \in 1 .. n |-> Leftover(s[i], b, e)]
<1>1. /\ n \in Nat /\ DOMAIN s = 1 .. n
      /\ \A i \in 1 .. n : s[i] \in Ent /\ s[i] \in Range(s)
      /\ \A x : x \in Range(s) <=> \E i \in 1 .. n : x = s[i]
    BY Members DEF List
<1>2. \A i \in 1 .. n : s[i].begin <= s[i].end + 1 /\ s[i].begin \in Int /\ s[i].end \in Int
    BY <1>1, EntForm DEF List, Sorted
<1>3. \A i \in 1 .. n :
         /\ List(Leftover(s[i], b, e)) /\ Leftover(s[i], b, e) \in Seq(Ent)
         /\ \A x \in Range(Leftover(s[i], b, e)) :
                 /\ x.begin \in Int /\ x.end \in Int
                 /\ s[i].begin <= x.begin /\ x.end <= s[i].end /\ x.tag = s[i].tag
                 /\ x.end < b \/ x.begin > e
                 /\ s[i].begin <= s[i].end => x.begin <= x.end
         /\ \A p \in Int : (\E x \in Range(Leftover(s[i], b, e)) : On(x, p)) <=>
                 On(s[i], p) /\ ~(b <= p /\ p <= e)
    BY <1>1, <1>2, LeftoverRight
<1>4. remove_memranges(s, b, e) = FlattenSeq(q)
    BY <1>1 DEF remove_memranges
<1>5. q \in Seq(Seq(Ent)) /\ Len(q) = n /\ \A i \in 1 .. n : q[i] = Leftover(s[i], b, e)
    <2>1. q \in [1 .. n -> Seq(Ent)]
        BY <1>3
    <2> QED BY <1>1, <2>1
<1> HIDE DEF n, q
<1>6. \A i \in 1 .. n : Sorted(q[i])
    BY <1>3, <1>5 DEF List
<1>7. ASSUME NEW i \in 1 .. n, NEW j \in 1 .. n, i < j,
             NEW x \in Range(q[i]), NEW y \in Range(q[j])
      PROVE  x.end < y.begin
    <2>1. s[i].end < s[j].begin
        BY <1>7 DEF List, Sorted, n
    <2>2. x.end <= s[i].end /\ s[j].begin <= y.begin /\ x.end \in Int /\ y.begin \in Int
        BY <1>3, <1>5
    <2> QED BY <1>2, <2>1, <2>2
<1>8. List(FlattenSeq(q))
    BY <1>5, <1>6, <1>7, FlattenLists
<1>9. \A x : x \in Range(FlattenSeq(q)) <=>
                \E i \in 1 .. n : x \in Range(Leftover(s[i], b, e))
    BY <1>5, FlattenMembers
<1>10. ASSUME NEW p \in Int, NEW t
       PROVE  Has(FlattenSeq(q), p, t) <=> Has(s, p, t) /\ ~(b <= p /\ p <= e)
    <2>1. Has(FlattenSeq(q), p, t) <=>
            \E i \in 1 .. n : \E x \in Range(Leftover(s[i], b, e)) : On(x, p) /\ x.tag = t
        BY <1>9 DEF Has
    <2>2. Has(s, p, t) <=> \E i \in 1 .. n : On(s[i], p) /\ s[i].tag = t
        BY <1>1 DEF Has
    <2>3. ASSUME NEW i \in 1 .. n
          PROVE  (\E x \in Range(Leftover(s[i], b, e)) : On(x, p) /\ x.tag = t) <=>
                   (On(s[i], p) /\ s[i].tag = t) /\ ~(b <= p /\ p <= e)
        BY <1>3
    <2> QED BY <2>1, <2>2, <2>3
<1>11. ASSUME NEW x \in Range(FlattenSeq(q))
       PROVE  /\ x.end < b \/ x.begin > e
              /\ \E y \in Range(s) : y.begin <= x.begin /\ x.end <= y.end /\ x.tag = y.tag
              /\ Solid(s) => x.begin <= x.end
    <2>1. PICK i \in 1 .. n : x \in Range(Leftover(s[i], b, e))
        BY <1>9
    <2>2. s[i] \in Range(s)
        BY <1>1
    <2> QED BY <1>3, <2>1, <2>2 DEF Solid
<1> QED BY <1>4, <1>8, <1>10, <1>11 DEF Solid

\* The new entry has a place.
LEMMA SpotExists ==
    ASSUME NEW k, List(k), NEW e \in Int
    PROVE  \E c \in 1 .. Len(k) + 1 :
              /\ \A i \in 1 .. c - 1 : e >= k[i].begin
              /\ c <= Len(k) => e < k[c].begin
<1> DEFINE U == {c \in 1 .. Len(k) + 1 : c <= Len(k) => e < k[c].begin}
<1>0. Len(k) \in Nat /\ \A i \in 1 .. Len(k) : k[i].begin \in Int
    <2>1. \A i \in 1 .. Len(k) : k[i] \in Ent
        BY Members DEF List
    <2> QED BY <2>1, Members, EntForm DEF List
<1>1. Len(k) + 1 \in U /\ U \in SUBSET Nat
    BY <1>0
<1>2. \A c : c \in U <=> c \in 1 .. Len(k) + 1 /\ (c <= Len(k) => e < k[c].begin)
    OBVIOUS
<1> HIDE DEF U
<1>3. PICK c \in U : \A d \in U : c <= d
    BY <1>1, Least
<1>4. ASSUME NEW i \in 1 .. c - 1 PROVE e >= k[i].begin
    <2>1. i \in 1 .. Len(k) /\ i \in 1 .. Len(k) + 1 /\ ~(c <= i)
        BY <1>0, <1>2, <1>3
    <2>2. i \notin U
        BY <1>3, <2>1
    <2> QED BY <1>0, <1>2, <2>1, <2>2
<1> QED BY <1>2, <1>3, <1>4

\* The list that is merged in the end.
LEMMA SpliceRight ==
    ASSUME NEW k, List(k), NEW b \in Int, NEW e \in Int, b <= e, NEW t \in MtrrType,
           \A x \in Range(k) : x.end < b \/ x.begin > e,
           NEW c \in 1 .. Len(k) + 1,
           \A i \in 1 .. c - 1 : e >= k[i].begin,
           c <= Len(k) => e < k[c].begin
    PROVE  /\ List(InsertAt(k, c, Entry(b, e, t)))
           /\ \A x : x \in Range(InsertAt(k, c, Entry(b, e, t))) <=>
                       x \in Range(k) \/ x = Entry(b, e, t)
<1> DEFINE f == SubSeq(k, 1, c - 1)
           g == SubSeq(k, c, Len(k))
           E == Entry(b, e, t)
<1>0. Len(k) \in Nat /\ \A i \in 1 .. Len(k) : k[i] \in Ent /\ k[i] \in Range(k)
    BY Members DEF List
<1>1. E \in Ent /\ E.begin = b /\ E.end = e
    BY EntryIn, EntryFields
<1> HIDE DEF E
<1>2. List(<<E>>) /\ Range(<<E>>) = {E}
    BY <1>1, OneEntry
<1>3. List(f) /\ \A x : x \in Range(f) <=> \E i \in 1 .. c - 1 : x = k[i]
    <2>1. c - 1 \in Int /\ c - 1 <= Len(k) /\ 1 \in Nat \ {0}
        BY <1>0
    <2> QED BY <2>1, SubList
<1>4. List(g) /\ \A x : x \in Range(g) <=> \E i \in c .. Len(k) : x = k[i]
    <2>1. Len(k) \in Int /\ Len(k) <= Len(k) /\ c \in Nat \ {0}
        BY <1>0
    <2> QED BY <2>1, SubList
<1>5. ASSUME NEW x \in Range(f) PROVE x.end < b /\ x.end \in Int
    <2>1. PICK i \in 1 .. c - 1 : x = k[i]
        BY <1>3
    <2>2. i \in 1 .. Len(k)
        BY <1>0
    <2>3. x.begin \in Int /\ x.end \in Int /\ x \in Range(k) /\ e >= x.begin
        BY <1>0, <2>1, <2>2, EntForm
    <2> QED BY <2>3
<1>6. ASSUME NEW y \in Range(g) PROVE e < y.begin /\ y.begin \in Int
    <2>1. PICK i \in c .. Len(k) : y = k[i]
        BY <1>4
    <2>2. i \in 1 .. Len(k) /\ c \in 1 .. Len(k) /\ c <= i /\ c <= Len(k)
        BY <1>0
    <2>3. k[c].begin \in Int /\ y.begin \in Int /\ k[c].begin <= y.begin /\ e < k[c].begin
        BY <2>1, <2>2, Apart
    <2> QED BY <2>3
<1> HIDE DEF f, g
<1>7. List(f \o <<E>>) /\ Range(f \o <<E>>) = Range(f) \cup {E}
    BY <1>1, <1>2, <1>3, <1>5, JoinLists
<1>8. \A x \in Range(f \o <<E>>) : \A y \in Range(g) : x.end < y.begin
    BY <1>1, <1>5, <1>6, <1>7
<1>9. /\ List((f \o <<E>>) \o g)
      /\ Range((f \o <<E>>) \o g) = Range(f \o <<E>>) \cup Range(g)
    BY <1>4, <1>7, <1>8, JoinLists
<1>10. InsertAt(k, c, E) = (f \o <<E>>) \o g
    BY DEF InsertAt, f, g
<1>11. \A x : x \in Range(k) <=> x \in Range(f) \/ x \in Range(g)
    <2>1. \A x : x \in Range(k) <=> \E i \in 1 .. Len(k) : x = k[i]
        BY Members DEF List
    <2>2. \A i : i \in 1 .. Len(k) <=> i \in 1 .. c - 1 \/ i \in c .. Len(k)
        BY <1>0
    <2> QED BY <1>3, <1>4, <2>1, <2>2
<1> QED BY <1>7, <1>9, <1>10, <1>11 DEF E

\* memranges_insert gives the pages of the range its tag and leaves the others.
LEMMA InsertRight ==
    ASSUME NEW s, List(s), Merged(s), NEW base \in Int, NEW size \in Nat, NEW tag \in MtrrType
    PROVE  /\ List(memranges_insert(s, base, size, tag))
           /\ Merged(memranges_insert(s, base, size, tag))
           /\ Solid(s) => Solid(memranges_insert(s, base, size, tag))
           /\ \A p \in Int : \A t : Has(memranges_insert(s, base, size, tag), p, t) <=>
                 IF base <= p /\ p < base + size THEN t = tag ELSE Has(s, p, t)
           /\ \A a \in Int, c \in Int : Within(s, a, c) /\ a <= base /\ base + size <= c =>
                 Within(memranges_insert(s, base, size, tag), a, c)
<1>1. CASE size = 0
    <2>1. memranges_insert(s, base, size, tag) = s
        BY <1>1 DEF memranges_insert
    <2>2. \A p \in Int : ~(base <= p /\ p < base + size)
        BY <1>1
    <2> QED BY <2>1, <2>2
<1>2. CASE size # 0
    <2> DEFINE e == base + size - 1
               k == remove_memranges(s, base, e)
               Spot(c) == /\ \A i \in 1 .. c - 1 : e >= k[i].begin
                          /\ c <= Len(k) => e < k[c].begin
               c == CHOOSE x \in 1 .. Len(k) + 1 : Spot(x)
               E == Entry(base, e, tag)
               r == InsertAt(k, c, E)
               m == merge_neighbor_entries(r)
    <2>1. e \in Int /\ base <= e
        BY <1>2
    <2>2. memranges_insert(s, base, size, tag) = m
        BY <1>2 DEF memranges_insert, merge_add_memranges
    <2>21. e = base + size - 1
        OBVIOUS
    <2> HIDE DEF e
    <2>3. /\ List(k)
          /\ \A p \in Int : \A t : Has(k, p, t) <=> Has(s, p, t) /\ ~(base <= p /\ p <= e)
          /\ \A x \in Range(k) :
                 /\ x.end < base \/ x.begin > e
                 /\ \E y \in Range(s) : y.begin <= x.begin /\ x.end <= y.end /\ x.tag = y.tag
          /\ Solid(s) => Solid(k)
        BY <2>1, RemoveRight
    <2> HIDE DEF k
    <2>4. \E x \in 1 .. Len(k) + 1 : Spot(x)
        BY <2>1, <2>3, SpotExists
    <2>5. c \in 1 .. Len(k) + 1 /\ Spot(c)
        BY <2>4, Zenon
    <2> HIDE DEF c
    <2>6. List(r) /\ \A x : x \in Range(r) <=> x \in Range(k) \/ x = E
        BY <2>1, <2>3, <2>5, SpliceRight
    <2>7. E.begin = base /\ E.end = e /\ E.tag = tag
        BY EntryFields
    <2> HIDE DEF r, E
    <2>8. /\ List(m) /\ Merged(m)
          /\ \A p \in Int : \A t : Has(m, p, t) <=> Has(r, p, t)
          /\ MadeOf(Range(m), Range(r))
          /\ Solid(r) => Solid(m)
        BY <2>6, MergeRight
    <2> HIDE DEF m
    <2>9. Solid(s) => Solid(m)
        BY <2>1, <2>3, <2>6, <2>7, <2>8 DEF Solid
    <2>10. ASSUME NEW p \in Int, NEW t
           PROVE  Has(m, p, t) <=>
                    IF base <= p /\ p < base + size THEN t = tag ELSE Has(s, p, t)
        <3>1. p <= e <=> p < base + size
            BY <2>21
        <3>2. On(E, p) <=> base <= p /\ p <= e
            BY <2>7 DEF On
        <3>3. Has(r, p, t) <=> Has(k, p, t) \/ (On(E, p) /\ E.tag = t)
            BY <2>6 DEF Has
        <3>4. Has(k, p, t) <=> Has(s, p, t) /\ ~(base <= p /\ p <= e)
            BY <2>3
        <3>5. Has(m, p, t) <=> Has(r, p, t)
            BY <2>8
        <3> QED BY <2>7, <3>1, <3>2, <3>3, <3>4, <3>5
    <2>11. ASSUME NEW a \in Int, NEW d \in Int, Within(s, a, d), a <= base, base + size <= d
           PROVE  Within(m, a, d)
        <3>1. \A x \in Range(r) : a <= x.begin /\ x.end < d
            <4> TAKE x \in Range(r)
            <4>1. CASE x = E
                BY <2>7, <2>11, <2>21, <4>1
            <4>2. CASE x \in Range(k)
                <5>1. PICK y \in Range(s) : y.begin <= x.begin /\ x.end <= y.end
                    BY <2>3, <4>2
                <5>2. x \in Ent /\ y \in Ent
                    <6>1. k \in Seq(Ent) /\ s \in Seq(Ent)
                        BY <2>3 DEF List
                    <6> QED BY <4>2, <6>1, Members
                <5>3. x.begin \in Int /\ x.end \in Int /\ y.begin \in Int /\ y.end \in Int
                    BY <5>2, EntForm
                <5>4. a <= y.begin /\ y.end < d
                    BY <2>11 DEF Within
                <5> QED BY <5>1, <5>3, <5>4
            <4> QED BY <2>6, <4>1, <4>2
        <3> QED BY <2>8, <3>1 DEF Within, MadeOf
    <2> QED BY <2>2, <2>8, <2>9, <2>10, <2>11
<1> QED BY <1>1, <1>2

-----------------------------------------------------------------------------
(* Replacing a tag and filling holes.                                      *)

\* memranges_update_tag gives the pages with one tag another.
LEMMA UpdateRight ==
    ASSUME NEW s, List(s), NEW old, NEW new \in MtrrType
    PROVE  /\ List(memranges_update_tag(s, old, new))
           /\ Merged(memranges_update_tag(s, old, new))
           /\ \A p \in Int : \A t : Has(memranges_update_tag(s, old, new), p, t) <=>
                 (t # old /\ Has(s, p, t)) \/ (t = new /\ Has(s, p, old))
           /\ \A a, c : Within(s, a, c) => Within(memranges_update_tag(s, old, new), a, c)
           /\ \A T : Tagged(s, T) /\ new \in T => Tagged(memranges_update_tag(s, old, new), T)
<1> DEFINE n == Len(s)
           Re(e) == IF e.tag = old THEN [e EXCEPT !.tag = new] ELSE e
           r == [i \in 1 .. n |-> Re(s[i])]
<1>1. /\ n \in Nat /\ DOMAIN s = 1 .. n
      /\ \A i \in 1 .. n : s[i] \in Ent /\ s[i] \in Range(s)
      /\ \A x : x \in Range(s) <=> \E i \in 1 .. n : x = s[i]
    BY Members DEF List
<1>2. ASSUME NEW e \in Ent
      PROVE  /\ Re(e) \in Ent /\ Re(e).begin = e.begin /\ Re(e).end = e.end
             /\ Re(e).tag = IF e.tag = old THEN new ELSE e.tag
    <2>1. CASE e.tag = old
        <3>1. Re(e) = Entry(e.begin, e.end, new)
            BY <2>1, EntForm
        <3>2. e.begin \in Int /\ e.end \in Int
            BY EntForm
        <3> HIDE DEF Re
        <3> QED BY <2>1, <3>1, <3>2, EntryFields, EntryIn
    <2>2. CASE e.tag # old
        BY <2>2
    <2> QED BY <2>1, <2>2
<1>3. memranges_update_tag(s, old, new) = merge_neighbor_entries(r)
    BY <1>1 DEF memranges_update_tag
<1>4. r \in Seq(Ent) /\ Len(r) = n /\ \A i \in 1 .. n : r[i] = Re(s[i])
    <2> HIDE DEF Re, n
    <2>1. r \in [1 .. n -> Ent]
        BY <1>1, <1>2
    <2> QED BY <1>1, <2>1
<1> HIDE DEF Re, r, n
<1>5. \A x : x \in Range(r) <=> \E i \in 1 .. n : x = Re(s[i])
    BY <1>4, Members
<1>6. List(r)
    <2>1. \A x \in Range(r) : x.begin <= x.end + 1
        <3> TAKE x \in Range(r)
        <3>1. PICK i \in 1 .. n : x = Re(s[i])
            BY <1>5
        <3>2. s[i].begin <= s[i].end + 1
            BY <1>1 DEF List, Sorted
        <3> QED BY <1>1, <1>2, <3>1, <3>2
    <2>2. ASSUME NEW i \in 1 .. n, NEW j \in 1 .. n, i < j PROVE r[i].end < r[j].begin
        <3>1. s[i].end < s[j].begin
            BY <2>2 DEF List, Sorted, n
        <3> QED BY <1>1, <1>2, <1>4, <3>1
    <2> QED BY <1>4, <2>1, <2>2 DEF List, Sorted
<1>7. /\ List(merge_neighbor_entries(r)) /\ Merged(merge_neighbor_entries(r))
      /\ \A p \in Int : \A t : Has(merge_neighbor_entries(r), p, t) <=> Has(r, p, t)
      /\ MadeOf(Range(merge_neighbor_entries(r)), Range(r))
    BY <1>6, MergeRight
<1>8. ASSUME NEW p \in Int, NEW t
      PROVE  Has(r, p, t) <=> (t # old /\ Has(s, p, t)) \/ (t = new /\ Has(s, p, old))
    <2>1. Has(r, p, t) <=> \E i \in 1 .. n : On(Re(s[i]), p) /\ Re(s[i]).tag = t
        BY <1>5 DEF Has
    <2>2. \A u : Has(s, p, u) <=> \E i \in 1 .. n : On(s[i], p) /\ s[i].tag = u
        BY <1>1 DEF Has
    <2>3. \A i \in 1 .. n : /\ On(Re(s[i]), p) <=> On(s[i], p)
                            /\ Re(s[i]).tag = IF s[i].tag = old THEN new ELSE s[i].tag
        BY <1>1, <1>2 DEF On
    <2> QED BY <2>1, <2>2, <2>3
<1>9. ASSUME NEW a, NEW c, Within(s, a, c) PROVE Within(merge_neighbor_entries(r), a, c)
    <2>1. \A x \in Range(r) : a <= x.begin /\ x.end < c
        BY <1>1, <1>2, <1>5, <1>9 DEF Within
    <2> QED BY <1>7, <2>1 DEF Within, MadeOf
<1>10. ASSUME NEW T, Tagged(s, T), new \in T PROVE Tagged(merge_neighbor_entries(r), T)
    <2>1. \A x \in Range(r) : x.tag \in T
        BY <1>1, <1>2, <1>5, <1>10 DEF Tagged
    <2> QED BY <1>7, <2>1 DEF Tagged, MadeOf
<1> QED BY <1>3, <1>7, <1>8, <1>9, <1>10

\* The hole in front of entry i.
LEMMA HoleRight ==
    ASSUME NEW s, List(s), NEW limit \in Int, NEW tag \in MtrrType,
           s[1].begin < limit, ~HoleBehindLimit(s, limit), NEW i \in 1 .. Len(s)
    PROVE  LET h == HoleBefore(s, i, limit, tag)
           IN  /\ List(h)
               /\ \A x \in Range(h) :
                     /\ i > 1 /\ s[i-1].end < x.begin /\ x.end < s[i].begin
                     /\ x.end < limit /\ x.tag = tag
               /\ \A p \in Int : (\E x \in Range(h) : On(x, p)) <=>
                     /\ i > 1 /\ s[i-1].begin < limit
                     /\ s[i-1].end < p /\ p < s[i].begin /\ p < limit
<1>0. Len(s) \in Nat
    BY Members DEF List
<1> DEFINE h == HoleBefore(s, i, limit, tag)
           C == i > 1 /\ (i > 2 => s[i-1].begin < limit) /\ s[i-1].end + 1 # s[i].begin
           b == s[i-1].end + 1
           e == IF s[i].begin - 1 >= limit THEN limit - 1 ELSE s[i].begin - 1
           E == Entry(b, e, tag)
<1>1. i > 1 => /\ i - 1 \in 1 .. Len(s) /\ i - 1 <= i /\ i - 1 # i /\ (i - 1) + 1 = i
               /\ i - 1 \in 1 .. Len(s) - 1 /\ (~(i > 2) => i - 1 = 1)
    BY <1>0
<1>2. s[i].begin \in Int /\ s[i].end \in Int
    BY Apart, <1>0
<1>3. i > 1 => /\ s[i-1].begin \in Int /\ s[i-1].end \in Int
               /\ s[i-1].begin <= s[i-1].end + 1 /\ s[i-1].end < s[i].begin
    BY <1>1, Apart
<1>4. h = IF C THEN <<E>> ELSE <<>>
    BY DEF HoleBefore, range_entry_end
<1>5. CASE C
    <2>1. i > 1 /\ s[i-1].begin < limit
        BY <1>1, <1>5
    <2>2. s[i-1].end + 1 <= limit
        <3>1. ~(s[i-1].end + 1 > limit)
            <4>1. \A j \in 1 .. Len(s) - 1 : s[j].begin < limit /\ s[j].end + 1 > limit
                                              => s[j].end + 1 = s[j+1].begin
                BY DEF HoleBehindLimit, range_entry_end
            <4>2. s[i-1].end + 1 > limit => s[i-1].end + 1 = s[(i-1)+1].begin
                BY <1>1, <2>1, <4>1
            <4>3. s[(i-1)+1] = s[i]
                BY <1>1, <2>1
            <4> QED BY <1>5, <4>2, <4>3
        <3> QED BY <1>3, <2>1, <3>1
    <2>3. b \in Int /\ e \in Int /\ b <= e + 1 /\ e < limit /\ e < s[i].begin
          /\ \A p \in Int : p <= e <=> p < s[i].begin /\ p < limit
        BY <1>2, <1>3, <1>5, <2>1, <2>2
    <2>31. s[i-1].end < b /\ \A p \in Int : b <= p <=> s[i-1].end < p
        BY <1>3, <2>1
    <2> HIDE DEF b, e
    <2>4. E \in Ent /\ E.begin = b /\ E.end = e /\ E.tag = tag
        BY <2>3, EntryIn, EntryFields
    <2> HIDE DEF E
    <2>5. List(<<E>>) /\ Range(<<E>>) = {E}
        BY <2>3, <2>4, OneEntry
    <2>6. h = <<E>>
        BY <1>4, <1>5
    <2> HIDE DEF h, C
    <2>7. \A p \in Int : On(E, p) <=> s[i-1].end < p /\ p < s[i].begin /\ p < limit
        BY <2>3, <2>31, <2>4 DEF On
    <2>8. /\ List(h)
          /\ \A x \in Range(h) :
                     /\ i > 1 /\ s[i-1].end < x.begin /\ x.end < s[i].begin
                     /\ x.end < limit /\ x.tag = tag
          /\ \A p \in Int : (\E x \in Range(h) : On(x, p)) <=>
                     /\ i > 1 /\ s[i-1].begin < limit
                     /\ s[i-1].end < p /\ p < s[i].begin /\ p < limit
        BY <2>1, <2>3, <2>31, <2>4, <2>5, <2>6, <2>7
    <2> QED BY <2>8 DEF h
<1>6. CASE ~C
    <2>1. h = <<>>
        BY <1>4, <1>6
    <2>2. ASSUME NEW p \in Int, i > 1, s[i-1].begin < limit, s[i-1].end < p, p < s[i].begin
          PROVE  FALSE
        BY <1>2, <1>3, <1>6, <2>2
    <2> HIDE DEF h
    <2>3. /\ List(h) /\ Range(h) = {}
        BY <2>1, NoEntries
    <2>4. /\ List(h)
          /\ \A x \in Range(h) :
                     /\ i > 1 /\ s[i-1].end < x.begin /\ x.end < s[i].begin
                     /\ x.end < limit /\ x.tag = tag
          /\ \A p \in Int : (\E x \in Range(h) : On(x, p)) <=>
                     /\ i > 1 /\ s[i-1].begin < limit
                     /\ s[i-1].end < p /\ p < s[i].begin /\ p < limit
        BY <2>2, <2>3
    <2> QED BY <2>4 DEF h
<1> QED BY <1>5, <1>6

\* The list s with its holes filled, before neighbours are merged.
Filled(r, s, limit, tag) ==
    /\ memranges_fill_holes_up_to(s, limit, tag) = merge_neighbor_entries(r)
    /\ List(r)
    /\ \A p \in Int : \A t : Has(r, p, t) <=>
          \/ Has(s, p, t)
          \/ /\ t = tag /\ s[1].begin <= p /\ p < limit
             /\ \A u : ~Has(s, p, u)
    /\ \A x \in Range(r) : \E y \in Range(s) :
          y.begin <= x.begin /\ (x = y \/ (x.end < limit /\ x.tag = tag))

\* What memranges_fill_holes_up_to merges in the end.
LEMMA FilledRight ==
    ASSUME NEW s, List(s), s # <<>>, NEW limit \in Int, NEW tag \in MtrrType,
           s[1].begin < limit, ~HoleBehindLimit(s, limit)
    PROVE  \E r : Filled(r, s, limit, tag)
<1> DEFINE n == Len(s)
           H(i) == HoleBefore(s, i, limit, tag)
           q == [i \in 1 .. n |-> H(i) \o <<s[i]>>]
           f == FlattenSeq(q)
           b == s[n].end + 1
           E == Entry(b, limit - 1, tag)
           tl == IF b < limit THEN <<E>> ELSE <<>>
           r == f \o tl
<1>1. /\ n \in Nat \ {0} /\ DOMAIN s = 1 .. n
      /\ \A i \in 1 .. n : s[i] \in Ent /\ s[i] \in Range(s)
      /\ \A x : x \in Range(s) <=> \E i \in 1 .. n : x = s[i]
    BY Members, EmptySeq DEF List
<1>2. memranges_fill_holes_up_to(s, limit, tag) = merge_neighbor_entries(r)
    <2>1. Last(s) = s[n]
        BY DEF Last
    <2> QED BY <1>1, <2>1 DEF memranges_fill_holes_up_to, range_entry_end
<1>3. \A i \in 1 .. n :
         /\ List(H(i))
         /\ \A x \in Range(H(i)) :
               /\ i > 1 /\ s[i-1].end < x.begin /\ x.end < s[i].begin
               /\ x.end < limit /\ x.tag = tag
         /\ \A p \in Int : (\E x \in Range(H(i)) : On(x, p)) <=>
               /\ i > 1 /\ s[i-1].begin < limit
               /\ s[i-1].end < p /\ p < s[i].begin /\ p < limit
    BY HoleRight
<1>4. \A i \in 1 .. n : s[i].begin \in Int /\ s[i].end \in Int /\ s[i].begin <= s[i].end + 1
                        /\ List(<<s[i]>>) /\ Range(<<s[i]>>) = {s[i]}
    BY <1>1, EntForm, OneEntry DEF List, Sorted
<1>40. \A i \in 1 .. n : s[i].begin \in Int /\ s[i].end \in Int /\ s[i].begin <= s[i].end + 1
    BY <1>4
<1>5. ASSUME NEW i \in 1 .. n
      PROVE  List(H(i) \o <<s[i]>>) /\ Range(H(i) \o <<s[i]>>) = Range(H(i)) \cup {s[i]}
    <2> HIDE DEF H
    <2> QED BY <1>3, <1>4, JoinLists
<1>6. q \in Seq(Seq(Ent)) /\ Len(q) = n /\ \A i \in 1 .. n : q[i] = H(i) \o <<s[i]>>
    <2> HIDE DEF H, n
    <2>1. q \in [1 .. n -> Seq(Ent)]
        BY <1>5 DEF List
    <2> QED BY <1>1, <2>1
<1> HIDE DEF H, q, n
<1>7. \A i \in 1 .. n : Sorted(q[i]) /\ Range(q[i]) = Range(H(i)) \cup {s[i]}
    BY <1>5, <1>6 DEF List
<1>8. ASSUME NEW i \in 1 .. n, NEW x \in Range(q[i])
      PROVE  /\ x.begin \in Int /\ x.end \in Int /\ x.end <= s[i].end
             /\ x = s[i] \/ (i > 1 /\ s[i-1].end < x.begin)
    <2>1. x \in Ent
        <3>1. q[i] \in Seq(Ent)
            BY <1>5, <1>6 DEF List
        <3> QED BY <3>1, Members
    <2>2. x.begin \in Int /\ x.end \in Int
        BY <2>1, EntForm
    <2>3. CASE x = s[i]
        BY <2>2, <2>3
    <2>4. CASE x \in Range(H(i))
        BY <1>3, <1>40, <2>2, <2>4
    <2> QED BY <1>7, <2>3, <2>4
<1>9. ASSUME NEW i \in 1 .. n, NEW j \in 1 .. n, i < j,
             NEW x \in Range(q[i]), NEW y \in Range(q[j])
      PROVE  x.end < y.begin
    <2>1. x.end <= s[i].end /\ x.end \in Int /\ y.begin \in Int
        BY <1>8
    <2>2. i <= j /\ i # j /\ j > 1 /\ j - 1 \in 1 .. n /\ i <= j - 1
        BY <1>1, <1>9
    <2>3. s[i].end < s[j].begin /\ s[i].end \in Int /\ s[j].begin \in Int
        BY <2>2, Apart DEF n
    <2>4. s[i].end <= s[j-1].end /\ s[j-1].end \in Int
        BY <2>2, Apart DEF n
    <2>5. CASE y = s[j]
        BY <2>1, <2>3, <2>5
    <2>6. CASE s[j-1].end < y.begin
        BY <2>1, <2>3, <2>4, <2>6
    <2> QED BY <1>8, <2>5, <2>6
<1>10. List(f)
    <2>1. \A i \in 1 .. Len(q) : Sorted(q[i])
        BY <1>6, <1>7
    <2>2. \A i, j \in 1 .. Len(q) : i < j =>
              \A x \in Range(q[i]) : \A y \in Range(q[j]) : x.end < y.begin
        BY <1>6, <1>9
    <2> QED BY <1>6, <2>1, <2>2, FlattenLists
<1>11. \A x : x \in Range(f) <=> \E i \in 1 .. n : x \in Range(H(i)) \/ x = s[i]
    <2>1. \A x : x \in Range(f) <=> \E i \in 1 .. n : x \in Range(q[i])
        BY <1>6, FlattenMembers
    <2> QED BY <1>7, <2>1
<1>12. n \in 1 .. n /\ 1 \in 1 .. n /\ b \in Int
    <2>1. n \in 1 .. n /\ 1 \in 1 .. n
        BY <1>1
    <2>2. s[n].end \in Int
        BY <1>40, <2>1
    <2> QED BY <2>1, <2>2
<1>13. s[n].end < b /\ b = s[n].end + 1
    BY <1>40, <1>12
<1> HIDE DEF b, f
<1>14. E \in Ent /\ E.begin = b /\ E.end = limit - 1 /\ E.tag = tag
    BY <1>12, EntryIn, EntryFields
<1> HIDE DEF E
<1>15. List(tl) /\ \A x : x \in Range(tl) <=> x = E /\ b < limit
    <2>1. CASE b < limit
        <3>1. E.begin <= E.end + 1
            BY <1>12, <1>14, <2>1
        <3> QED BY <1>14, <2>1, <3>1, OneEntry
    <2>2. CASE ~(b < limit)
        BY <2>2, NoEntries
    <2> QED BY <2>1, <2>2
<1>16. \A x \in Range(f) : x.end < b
    <2> TAKE x \in Range(f)
    <2>1. PICK i \in 1 .. n : x \in Range(q[i])
        BY <1>7, <1>11
    <2>2. x.end \in Int /\ x.end <= s[i].end
        BY <1>8, <2>1
    <2>3. i <= n
        BY <1>1
    <2>4. s[i].end <= s[n].end /\ s[i].end \in Int /\ s[n].end \in Int
        BY <1>12, <2>3, Apart DEF n
    <2> QED BY <1>12, <1>13, <2>2, <2>4
<1> HIDE DEF tl
<1>17. List(r) /\ Range(r) = Range(f) \cup Range(tl)
    BY <1>10, <1>14, <1>15, <1>16, JoinLists
<1> HIDE DEF r
<1>18. ASSUME NEW p \in Int, NEW t
       PROVE  Has(r, p, t) <=> \/ Has(s, p, t)
                               \/ /\ t = tag /\ s[1].begin <= p /\ p < limit
                                  /\ \A u : ~Has(s, p, u)
    <2> DEFINE Hole == \/ \E i \in 1 .. n : /\ i > 1 /\ s[i-1].begin < limit
                                            /\ s[i-1].end < p /\ p < s[i].begin /\ p < limit
                       \/ b < limit /\ b <= p /\ p < limit
    <2>1. Has(s, p, t) <=> \E i \in 1 .. n : On(s[i], p) /\ s[i].tag = t
        BY <1>1 DEF Has
    <2>2. On(E, p) <=> b <= p /\ p < limit
        BY <1>12, <1>14 DEF On
    <2>3. Has(r, p, t) <=> Has(s, p, t) \/ (t = tag /\ Hole)
        <3>1. Has(r, p, t) <=> \/ \E i \in 1 .. n : \E x \in Range(H(i)) : On(x, p) /\ x.tag = t
                               \/ \E i \in 1 .. n : On(s[i], p) /\ s[i].tag = t
                               \/ b < limit /\ On(E, p) /\ E.tag = t
            BY <1>11, <1>15, <1>17 DEF Has
        <3>2. (\E i \in 1 .. n : \E x \in Range(H(i)) : On(x, p) /\ x.tag = t) <=>
                 t = tag /\ \E i \in 1 .. n : /\ i > 1 /\ s[i-1].begin < limit
                                            /\ s[i-1].end < p /\ p < s[i].begin /\ p < limit
            BY <1>3
        <3> QED BY <1>14, <2>1, <2>2, <3>1, <3>2
    <2>4. ASSUME Hole PROVE s[1].begin <= p /\ p < limit /\ \A u : ~Has(s, p, u)
        <3>0. \A j \in 1 .. n : 1 <= j /\ j <= n /\ j \in Nat
            BY <1>1
        <3>1. ASSUME NEW i \in 1 .. n, s[i].end < p, i < n => p < s[i + 1].begin
              PROVE  s[1].begin <= p /\ \A u : ~Has(s, p, u)
            <4>1. s[1].end <= s[i].end /\ s[1].end \in Int /\ s[1].begin \in Int
                  /\ s[1].begin <= s[1].end + 1 /\ s[i].end \in Int
                BY <1>12, <3>0, Apart DEF n
            <4>2. s[1].begin <= p
                BY <3>1, <4>1
            <4>3. ASSUME NEW j \in 1 .. n, On(s[j], p) PROVE FALSE
                <5>1. CASE j <= i
                    <6>1. s[j].end <= s[i].end /\ s[j].end \in Int
                        BY <5>1, Apart DEF n
                    <6> QED BY <3>1, <4>1, <4>3, <6>1 DEF On
                <5>2. CASE i < j
                    <6>1. i < n /\ i + 1 \in 1 .. n /\ i + 1 <= j
                        BY <1>1, <5>2
                    <6>2. s[i + 1].begin <= s[j].begin /\ s[i + 1].begin \in Int
                          /\ s[j].begin \in Int
                        BY <6>1, Apart DEF n
                    <6> QED BY <3>1, <4>3, <6>1, <6>2 DEF On
                <5> QED BY <3>0, <5>1, <5>2
            <4>4. \A u : ~Has(s, p, u)
                BY <1>1, <4>3 DEF Has
            <4> QED BY <4>2, <4>4
        <3>2. CASE \E i \in 1 .. n : /\ i > 1 /\ s[i-1].begin < limit
                                     /\ s[i-1].end < p /\ p < s[i].begin /\ p < limit
            <4>1. PICK i \in 1 .. n : i > 1 /\ s[i-1].end < p /\ p < s[i].begin /\ p < limit
                BY <3>2
            <4>2. i - 1 \in 1 .. n /\ (i - 1) + 1 = i
                BY <1>1, <4>1
            <4>3. s[1].begin <= p /\ \A u : ~Has(s, p, u)
                BY <3>1, <4>1, <4>2
            <4> QED BY <4>1, <4>3
        <3>3. CASE b < limit /\ b <= p /\ p < limit
            <4>1. s[n].end < p
                BY <1>40, <1>12, <1>13, <3>3
            <4>2. s[1].begin <= p /\ \A u : ~Has(s, p, u)
                BY <3>1, <1>12, <4>1
            <4> QED BY <3>3, <4>2
        <3> QED BY <2>4, <3>2, <3>3
    <2>5. ASSUME s[1].begin <= p, p < limit, \A u : ~Has(s, p, u) PROVE Hole
        <3>1. PICK c \in 1 .. n + 1 : /\ \A i \in 1 .. c - 1 : p >= s[i].begin
                                      /\ c <= n => p < s[c].begin
            BY SpotExists DEF n
        <3>2. c # 1
            <4>1. 1 <= n /\ s[1].begin \in Int
                BY <1>1, <1>40, <1>12
            <4> QED BY <2>5, <3>1, <4>1
        <3>3. c - 1 \in 1 .. n /\ c - 1 \in 1 .. c - 1 /\ c > 1 /\ (c <= n \/ c - 1 = n)
              /\ (c <= n => c \in 1 .. n)
            BY <1>1, <3>1, <3>2
        <3>4. ~On(s[c - 1], p)
            BY <1>1, <2>5, <3>3 DEF Has
        <3>5. p >= s[c - 1].begin
            BY <3>1, <3>3
        <3>6. s[c - 1].end < p /\ s[c - 1].begin < limit
            <4>1. s[c - 1].end \in Int /\ s[c - 1].begin \in Int
                BY <1>40, <3>3
            <4> QED BY <2>5, <3>4, <3>5, <4>1 DEF On
        <3>7. CASE c <= n
            BY <2>5, <3>1, <3>3, <3>6, <3>7
        <3>8. CASE c - 1 = n
            <4>1. s[n].end < p /\ s[n].end \in Int
                BY <1>40, <1>12, <3>6, <3>8
            <4>2. b <= p /\ b < limit
                BY <1>13, <2>5, <4>1
            <4> QED BY <2>5, <4>2
        <3> QED BY <3>3, <3>7, <3>8
    <2> HIDE DEF Hole
    <2> QED BY <2>3, <2>4, <2>5
<1>19. ASSUME NEW x \in Range(r)
       PROVE  \E y \in Range(s) : y.begin <= x.begin /\ (x = y \/ (x.end < limit /\ x.tag = tag))
    <2>1. CASE x \in Range(f)
        <3>1. PICK i \in 1 .. n : x \in Range(H(i)) \/ x = s[i]
            BY <1>11, <2>1
        <3>2. CASE x = s[i]
            BY <1>1, <1>40, <3>2
        <3>3. CASE x \in Range(H(i))
            <4>1. i > 1 /\ s[i-1].end < x.begin /\ x.end < limit /\ x.tag = tag
                BY <1>3, <3>3
            <4>2. i - 1 \in 1 .. n
                BY <1>1, <4>1
            <4>3. x.begin \in Int
                BY <1>7, <1>8, <3>3
            <4>4. s[i-1].begin <= x.begin
                BY <1>40, <4>1, <4>2, <4>3
            <4> QED BY <1>1, <4>1, <4>2, <4>4
        <3> QED BY <3>1, <3>2, <3>3
    <2>2. CASE x = E
        <3>1. s[n].begin <= b
            BY <1>40, <1>12, <1>13
        <3>2. x.end < limit /\ x.tag = tag
            BY <1>14, <2>2
        <3> QED BY <1>1, <1>12, <1>14, <2>2, <3>1, <3>2
    <2> QED BY <1>15, <1>17, <2>1, <2>2
<1>20. Filled(r, s, limit, tag)
    BY <1>2, <1>17, <1>18, <1>19 DEF Filled
<1> QED BY <1>20

\* memranges_fill_holes_up_to gives the tag to the pages below the limit that had none.
LEMMA FillRight ==
    ASSUME NEW s, List(s), s # <<>>, NEW limit \in Int, NEW tag \in MtrrType,
           s[1].begin < limit, ~HoleBehindLimit(s, limit)
    PROVE  /\ List(memranges_fill_holes_up_to(s, limit, tag))
           /\ Merged(memranges_fill_holes_up_to(s, limit, tag))
           /\ \A p \in Int : \A t : Has(memranges_fill_holes_up_to(s, limit, tag), p, t) <=>
                        \/ Has(s, p, t)
                        \/ /\ t = tag /\ s[1].begin <= p /\ p < limit
                           /\ \A u : ~Has(s, p, u)
           /\ \A a \in Int, c \in Int : Within(s, a, c) /\ limit <= c =>
                 Within(memranges_fill_holes_up_to(s, limit, tag), a, c)
           /\ \A T : Tagged(s, T) /\ tag \in T =>
                 Tagged(memranges_fill_holes_up_to(s, limit, tag), T)
<1>0. PICK r : Filled(r, s, limit, tag)
    BY FilledRight
<1>1. /\ memranges_fill_holes_up_to(s, limit, tag) = merge_neighbor_entries(r)
      /\ List(r)
      /\ \A p \in Int : \A t : Has(r, p, t) <=>
            \/ Has(s, p, t)
            \/ /\ t = tag /\ s[1].begin <= p /\ p < limit
               /\ \A u : ~Has(s, p, u)
      /\ \A x \in Range(r) : \E y \in Range(s) :
            y.begin <= x.begin /\ (x = y \/ (x.end < limit /\ x.tag = tag))
    BY <1>0 DEF Filled
<1> DEFINE m == merge_neighbor_entries(r)
<1>2. /\ List(m) /\ Merged(m)
      /\ \A p \in Int : \A t : Has(m, p, t) <=> Has(r, p, t)
      /\ MadeOf(Range(m), Range(r))
    BY <1>1, MergeRight
<1> HIDE DEF m
<1>3. ASSUME NEW a \in Int, NEW c \in Int, Within(s, a, c), limit <= c PROVE Within(m, a, c)
    <2>1. \A x \in Range(r) : a <= x.begin /\ x.end < c
        <3> TAKE x \in Range(r)
        <3>1. PICK y \in Range(s) : y.begin <= x.begin /\ (x = y \/ (x.end < limit /\ x.tag = tag))
            BY <1>1
        <3>2. x \in Ent /\ y \in Ent
            <4>1. r \in Seq(Ent) /\ s \in Seq(Ent)
                BY <1>1 DEF List
            <4> QED BY <4>1, Members
        <3>3. x.begin \in Int /\ x.end \in Int /\ y.begin \in Int /\ y.end \in Int
            BY <3>2, EntForm
        <3>4. a <= y.begin /\ y.end < c
            BY <1>3 DEF Within
        <3> QED BY <1>3, <3>1, <3>3, <3>4
    <2> QED BY <1>2, <2>1 DEF Within, MadeOf
<1>5. ASSUME NEW T, Tagged(s, T), tag \in T PROVE Tagged(m, T)
    <2>1. \A x \in Range(r) : x.tag \in T
        BY <1>1, <1>5 DEF Tagged
    <2> QED BY <1>2, <2>1 DEF Tagged, MadeOf
<1>4. \A p \in Int : \A t : Has(m, p, t) <=>
                        \/ Has(s, p, t)
                        \/ /\ t = tag /\ s[1].begin <= p /\ p < limit
                           /\ \A u : ~Has(s, p, u)
    BY <1>1, <1>2
<1> QED BY <1>1, <1>2, <1>3, <1>4, <1>5 DEF m

-----------------------------------------------------------------------------
(* Folds over finite sets.                                                 *)

\* The element FoldSet takes next.
Chosen(s) == CHOOSE x \in s : TRUE

\* A function defined from sets to those with one element more.
Folds(f, D, base, G) ==
    f = [s \in D |-> IF s = {} THEN base ELSE G[Chosen(s)][f[s \ {Chosen(s)}]]]

\* A set and the one without its chosen element.
LEMMA Smaller ==
    ASSUME NEW M, IsFiniteSet(M), NEW s \in SUBSET M, s # {}
    PROVE  /\ Chosen(s) \in s /\ Chosen(s) \in M /\ s \ {Chosen(s)} \in SUBSET M
           /\ Cardinality(s) \in Nat /\ Cardinality(s \ {Chosen(s)}) = Cardinality(s) - 1
           /\ Cardinality(s) # 0
<1>1. Chosen(s) \in s
    BY DEF Chosen
<1>2. IsFiniteSet(s)
    BY FS_Subset
<1>3. Cardinality(s) \in Nat /\ Cardinality(s) # 0
    BY <1>2, FS_CardinalityType, FS_EmptySet
<1>4. Cardinality(s \ {Chosen(s)}) = Cardinality(s) - 1
    BY <1>1, <1>2, FS_RemoveElement
<1> QED BY <1>1, <1>3, <1>4

\* There is one on the subsets of a finite set, when every step stays in S.
LEMMA FoldsExists ==
    ASSUME NEW M, IsFiniteSet(M), NEW S, NEW base \in S, NEW G \in [M -> [S -> S]]
    PROVE  \E f \in [SUBSET M -> S] : Folds(f, SUBSET M, base, G)
<1> DEFINE Up(k) == {s \in SUBSET M : Cardinality(s) <= k}
           n == Cardinality(M)
           T == {k \in 0 .. n : \E f \in [Up(k) -> S] : Folds(f, Up(k), base, G)}
<1>0. n \in Nat /\ \A s \in SUBSET M : Cardinality(s) \in Nat /\ Cardinality(s) <= n
    <2>1. n \in Nat
        BY FS_CardinalityType
    <2>2. \A s \in SUBSET M : IsFiniteSet(s) /\ Cardinality(s) <= n
        BY FS_Subset
    <2> QED BY <2>1, <2>2, FS_CardinalityType
<1>01. \A s \in SUBSET M : s # {} =>
           /\ Chosen(s) \in M /\ s \ {Chosen(s)} \in SUBSET M
           /\ Cardinality(s \ {Chosen(s)}) = Cardinality(s) - 1
           /\ Cardinality(s) # 0
    BY Smaller
<1> HIDE DEF n
<1>1. 0 \in T
    <2>1. \A s \in Up(0) : s = {}
        <3> TAKE s \in Up(0)
        <3>1. Cardinality(s) \in Nat /\ Cardinality(s) <= 0 /\ s \in SUBSET M
            BY <1>0
        <3>2. Cardinality(s) = 0
            BY <3>1
        <3> QED BY <1>01, <3>1, <3>2
    <2> DEFINE f == [s \in Up(0) |-> base]
    <2>2. f \in [Up(0) -> S]
        OBVIOUS
    <2>3. Folds(f, Up(0), base, G)
        <3> HIDE DEF Up
        <3>1. \A s \in Up(0) :
                f[s] = IF s = {} THEN base ELSE G[Chosen(s)][f[s \ {Chosen(s)}]]
            BY <2>1
        <3> HIDE DEF f
        <3> QED BY <2>2, <3>1 DEF Folds
    <2> HIDE DEF f, Up
    <2> QED BY <1>0, <2>2, <2>3
<1>2. ASSUME NEW k \in 0 .. n - 1, k \in T PROVE k + 1 \in T
    <2>1. PICK f \in [Up(k) -> S] : Folds(f, Up(k), base, G)
        BY <1>2
    <2>2. \A s \in Up(k) : f[s] = IF s = {} THEN base ELSE G[Chosen(s)][f[s \ {Chosen(s)}]]
        BY <2>1 DEF Folds
    <2> DEFINE Rest(s) == s \ {Chosen(s)}
               g == [s \in Up(k + 1) |-> IF s = {} THEN base ELSE G[Chosen(s)][f[Rest(s)]]]
    <2>3. \A s \in Up(k + 1) : s # {} => Rest(s) \in Up(k) /\ Rest(s) \in Up(k + 1)
                                          /\ Chosen(s) \in M
        <3> TAKE s \in Up(k + 1)
        <3> SUFFICES ASSUME s # {} PROVE Rest(s) \in Up(k) /\ Rest(s) \in Up(k + 1)
                                          /\ Chosen(s) \in M
            OBVIOUS
        <3>1. /\ Chosen(s) \in M /\ Rest(s) \in SUBSET M /\ Cardinality(s) \in Nat
              /\ Cardinality(Rest(s)) = Cardinality(s) - 1 /\ Cardinality(s) <= k + 1
            BY <1>0, <1>01
        <3>2. Cardinality(s) - 1 <= k /\ Cardinality(s) - 1 <= k + 1
            BY <1>2, <3>1
        <3> QED BY <3>1, <3>2
    <2>4. g \in [Up(k + 1) -> S]
        <3>1. ASSUME NEW s \in Up(k + 1)
              PROVE  (IF s = {} THEN base ELSE G[Chosen(s)][f[Rest(s)]]) \in S
            <4>1. CASE s = {}
                BY <4>1
            <4>2. CASE s # {}
                <5>1. Rest(s) \in Up(k) /\ Chosen(s) \in M
                    BY <2>3, <4>2
                <5>2. f[Rest(s)] \in S
                    <6> HIDE DEF Rest, Up
                    <6> QED BY <5>1, <2>1
                <5> HIDE DEF Rest
                <5> QED BY <4>2, <5>1, <5>2
            <4> QED BY <4>1, <4>2
        <3> HIDE DEF Rest, Up
        <3> QED BY <3>1
    <2>5. \A s \in Up(k) : s \in Up(k + 1) /\ g[s] = f[s]
        <3> TAKE s \in Up(k)
        <3>1. s \in Up(k + 1)
            BY <1>0, <1>2
        <3>2. g[s] = IF s = {} THEN base ELSE G[Chosen(s)][f[Rest(s)]]
            <4> HIDE DEF Up, Rest
            <4> QED BY <3>1
        <3> QED BY <2>2, <3>1, <3>2
    <2>6. \A s \in Up(k + 1) : g[s] = IF s = {} THEN base ELSE G[Chosen(s)][g[Rest(s)]]
        <3> TAKE s \in Up(k + 1)
        <3>1. g[s] = IF s = {} THEN base ELSE G[Chosen(s)][f[Rest(s)]]
            <4> HIDE DEF Up, Rest
            <4> QED OBVIOUS
        <3>2. s # {} => f[Rest(s)] = g[Rest(s)]
            <4> HIDE DEF Up, Rest, g
            <4> QED BY <2>3, <2>5
        <3> HIDE DEF Up, Rest, g
        <3> QED BY <3>1, <3>2
    <2>7. Folds(g, Up(k + 1), base, G)
        <3>1. g = [s \in Up(k + 1) |-> g[s]]
            <4> HIDE DEF Up, Rest
            <4> QED OBVIOUS
        <3> HIDE DEF Up, g
        <3> QED BY <2>6, <3>1 DEF Folds
    <2>8. k + 1 \in 0 .. n
        BY <1>0, <1>2
    <2> HIDE DEF Up, g
    <2> QED BY <2>4, <2>7, <2>8
<1>3. \A k \in 0 .. n : k \in T
    <2> HIDE DEF T
    <2> QED BY <1>0, <1>1, <1>2, Climb
<1>4. Up(n) = SUBSET M
    BY <1>0
<1>5. \E f \in [Up(n) -> S] : Folds(f, Up(n), base, G)
    <2>1. n \in 0 .. n
        BY <1>0
    <2> HIDE DEF Up
    <2> QED BY <2>1, <1>3
<1> QED BY <1>4, <1>5

\* Induction over the subsets of a finite set.
LEMMA Gather ==
    ASSUME NEW M, IsFiniteSet(M), NEW T, {} \in T,
           \A s \in SUBSET M : s # {} /\ s \ {Chosen(s)} \in T => s \in T
    PROVE  M \in T
<1> DEFINE n == Cardinality(M)
           U == {k \in 0 .. n : \A s \in SUBSET M : Cardinality(s) = k => s \in T}
<1>0. n \in Nat
    BY FS_CardinalityType
<1>01. \A s \in SUBSET M : s # {} =>
           /\ s \ {Chosen(s)} \in SUBSET M
           /\ Cardinality(s) \in Nat
           /\ Cardinality(s \ {Chosen(s)}) = Cardinality(s) - 1
           /\ Cardinality(s) # 0
    BY Smaller
<1> HIDE DEF n
<1>1. 0 \in U
    <2>1. ASSUME NEW s \in SUBSET M, Cardinality(s) = 0 PROVE s \in T
        <3>1. s = {}
            BY <1>01, <2>1
        <3> QED BY <3>1
    <2> QED BY <1>0, <2>1
<1>2. ASSUME NEW k \in 0 .. n - 1, k \in U PROVE k + 1 \in U
    <2>1. ASSUME NEW s \in SUBSET M, Cardinality(s) = k + 1 PROVE s \in T
        <3>1. s # {}
            BY <1>2, <2>1, FS_EmptySet
        <3>2. s \ {Chosen(s)} \in SUBSET M /\ Cardinality(s \ {Chosen(s)}) = k
            <4>1. (k + 1) - 1 = k
                BY <1>2
            <4> QED BY <1>01, <2>1, <3>1, <4>1
        <3>3. s \ {Chosen(s)} \in T
            BY <1>2, <3>2
        <3> QED BY <3>1, <3>3
    <2>2. k + 1 \in 0 .. n
        BY <1>0, <1>2
    <2> QED BY <2>1, <2>2
<1>3. \A k \in 0 .. n : k \in U
    <2> HIDE DEF U
    <2> QED BY <1>0, <1>1, <1>2, Climb
<1>4. n \in U
    BY <1>0, <1>3
<1> QED BY <1>4 DEF n

-----------------------------------------------------------------------------
(* The address space.                                                      *)

\* Bit as the provers see it.
BitFn == CHOOSE f : f = [n \in 0 .. AddressBits + 1 |-> IF n = 0 THEN 1 ELSE 2 * f[n-1]]

\* The powers of two.
LEMMA Bits ==
    /\ AddressBits \in Nat
    /\ \A i \in 0 .. AddressBits + 1 : Bit[i] \in Nat \ {0}
    /\ Bit[0] = 1 /\ \A i \in 0 .. AddressBits : Bit[i + 1] = 2 * Bit[i]
    /\ Top \in Nat \ {0} /\ Top = Bit[AddressBits]
<1> DEFINE n == AddressBits + 1
           P == Nat \ {0}
           G == [k \in 1 .. n |-> [x \in P |-> 2 * x]]
           Eq(f) == f = [i \in 0 .. AddressBits + 1 |-> IF i = 0 THEN 1 ELSE 2 * f[i-1]]
<1>0. AddressBits \in Nat /\ n \in Nat
    BY MtrrAssumption
<1>1. 1 \in P /\ G \in [1 .. n -> [P -> P]]
    OBVIOUS
<1>2. PICK g \in [0 .. n -> P] : Grows(g, n, 1, G)
    <2> HIDE DEF G, P, n
    <2> QED BY <1>0, <1>1, GrowsExists
<1>3. \A i \in 0 .. n : g[i] = IF i = 0 THEN 1 ELSE 2 * g[i-1]
    <2> TAKE i \in 0 .. n
    <2>1. i # 0 => i \in 1 .. n /\ i - 1 \in 0 .. n /\ g[i - 1] \in P
        BY <1>0
    <2>2. g[i] = IF i = 0 THEN 1 ELSE G[i][g[i - 1]]
        <3> HIDE DEF G
        <3> QED BY <1>2 DEF Grows
    <2> QED BY <2>1, <2>2
<1>4. Eq(g)
    BY <1>3
<1>5. Eq(BitFn)
    BY <1>4, Zenon DEF BitFn
<1>6. Bit = BitFn
    BY DEF Bit, BitFn
<1>7. \A i \in 0 .. n : Bit[i] = IF i = 0 THEN 1 ELSE 2 * Bit[i-1]
    BY <1>5, <1>6
<1> DEFINE T == {i \in 0 .. n : Bit[i] \in P}
<1>8. 0 \in T
    BY <1>0, <1>7
<1>9. ASSUME NEW i \in 0 .. n - 1, i \in T PROVE i + 1 \in T
    <2>1. i + 1 \in 0 .. n /\ i + 1 # 0 /\ (i + 1) - 1 = i
        BY <1>0, <1>9
    <2>2. Bit[i + 1] = 2 * Bit[i] /\ Bit[i] \in P
        BY <1>7, <1>9, <2>1
    <2> QED BY <2>1, <2>2
<1>10. \A i \in 0 .. n : i \in T
    <2> HIDE DEF T, n
    <2> QED BY <1>0, <1>8, <1>9, Climb
<1>11. \A i \in 0 .. AddressBits + 1 : Bit[i] \in Nat \ {0}
    BY <1>10
<1>12. ASSUME NEW i \in 0 .. AddressBits PROVE Bit[i + 1] = 2 * Bit[i]
    <2>1. i + 1 \in 0 .. n /\ i + 1 # 0 /\ (i + 1) - 1 = i
        BY <1>0
    <2> QED BY <1>7, <2>1
<1>13. 0 \in 0 .. n /\ AddressBits \in 0 .. AddressBits + 1
    BY <1>0
<1> QED BY <1>0, <1>7, <1>11, <1>12, <1>13 DEF Top

\* The sizes as MtrrAssumption has them.
LEMMA Lines ==
    /\ RANGE_1MB \in Nat /\ RANGE_1MB > 0 /\ RANGE_4GB \in Nat /\ RANGE_4GB > 0
    /\ RANGE_1MB <= RANGE_4GB /\ RANGE_4GB <= Top /\ Top \in Nat /\ Top > 0
    /\ \A r \in Resource : /\ r.base \in Nat /\ r.end \in Nat /\ r.base < r.end
                           /\ r.end <= Top /\ r.type \in {UC, WC, WB}
<1>1. RANGE_1MB \in Nat /\ RANGE_1MB > 0 /\ RANGE_4GB \in Nat /\ RANGE_4GB > 0
      /\ RANGE_1MB <= RANGE_4GB /\ RANGE_4GB <= Top
    BY MtrrAssumption
<1>2. Top \in Nat /\ Top > 0
    BY Bits
<1>3. ASSUME NEW r \in Resource
      PROVE  /\ r.base \in Nat /\ r.end \in Nat /\ r.base < r.end
             /\ r.end <= Top /\ r.type \in {UC, WC, WB}
    <2>1. r.base \in Edges /\ r.end \in Edges /\ r.type \in {UC, WC, WB} /\ r.base < r.end
        BY DEF Resource
    <2>2. r.base \in 0 .. Top /\ r.end \in 0 .. Top
        BY <2>1, MtrrAssumption
    <2> QED BY <1>2, <2>1, <2>2
<1> QED BY <1>1, <1>2, <1>3

\* The tags are types.
LEMMA Tags ==
    /\ UC \in MtrrType /\ WC \in MtrrType /\ WB \in MtrrType /\ WP \in MtrrType
    /\ UC # WC /\ UC # WB /\ UC # WP /\ WC # WB /\ WC # WP /\ WB # WP
    /\ MtrrType \subseteq Int /\ -1 \notin MtrrType
    /\ MtrrType = {UC, WC, WP, WB}
BY DEF MtrrType, UC, WC, WP, WB

\* Lists as memranges_insert leaves them.
Lists == {s \in Seq(Ent) : List(s) /\ Merged(s) /\ Solid(s) /\ Within(s, 0, Top)}

\* memranges_insert gives the pages of the new range its tag and leaves the others.
LEMMA Inserts ==
    ASSUME NEW s \in Lists, NEW base \in Nat, NEW size \in Nat, base + size <= Top,
           NEW tag \in MtrrType
    PROVE  /\ memranges_insert(s, base, size, tag) \in Lists
           /\ \A p \in Int : \A t : Has(memranges_insert(s, base, size, tag), p, t) <=>
                 IF base <= p /\ p < base + size THEN t = tag ELSE Has(s, p, t)
<1>1. List(s) /\ Merged(s) /\ Solid(s) /\ Within(s, 0, Top)
    BY DEF Lists
<1>2. base \in Int /\ 0 \in Int /\ Top \in Int /\ 0 <= base
    BY Lines
<1> DEFINE m == memranges_insert(s, base, size, tag)
<1>3. /\ List(m) /\ Merged(m) /\ (Solid(s) => Solid(m))
      /\ \A p \in Int : \A t : Has(m, p, t) <=>
            IF base <= p /\ p < base + size THEN t = tag ELSE Has(s, p, t)
      /\ \A a \in Int, c \in Int : Within(s, a, c) /\ a <= base /\ base + size <= c =>
            Within(m, a, c)
    BY <1>1, <1>2, InsertRight
<1> HIDE DEF m
<1>4. Within(m, 0, Top)
    BY <1>1, <1>2, <1>3
<1> QED BY <1>1, <1>3, <1>4 DEF Lists, List, m

\* The fold of memranges_add_resources as the provers see it.
FoldFn(ranges, M, tag) ==
    CHOOSE f : f = [s \in SUBSET M |->
        IF s = {} THEN ranges
        ELSE memranges_insert(f[s \ {CHOOSE x \in s : TRUE}],
                              (CHOOSE x \in s : TRUE).base,
                              (CHOOSE x \in s : TRUE).end - (CHOOSE x \in s : TRUE).base,
                              tag)]

\* A page of one of the resources.
Among(M, p) == \E r \in M : r.base <= p /\ p < r.end

\* memranges_add_resources gives the pages of the resources the tag.
LEMMA AddRight ==
    ASSUME NEW M \in SUBSET Resource, IsFiniteSet(M), NEW ranges \in Lists,
           NEW tag \in MtrrType
    PROVE  /\ memranges_add_resources(ranges, M, tag) \in Lists
           /\ \A p \in Int : \A t : Has(memranges_add_resources(ranges, M, tag), p, t) <=>
                 IF Among(M, p) THEN t = tag ELSE Has(ranges, p, t)
<1> DEFINE Ins(l, r) == memranges_insert(l, r.base, r.end - r.base, tag)
           G == [r \in M |-> [l \in Lists |-> Ins(l, r)]]
           Eq(f) == f = [s \in SUBSET M |->
               IF s = {} THEN ranges
               ELSE memranges_insert(f[s \ {CHOOSE x \in s : TRUE}],
                              (CHOOSE x \in s : TRUE).base,
                              (CHOOSE x \in s : TRUE).end - (CHOOSE x \in s : TRUE).base,
                              tag)]
           h == FoldFn(ranges, M, tag)
<1>1. ASSUME NEW r \in M, NEW l \in Lists
      PROVE  /\ Ins(l, r) \in Lists
             /\ \A p \in Int : \A t : Has(Ins(l, r), p, t) <=>
                   IF r.base <= p /\ p < r.end THEN t = tag ELSE Has(l, p, t)
    <2>1. r.base \in Nat /\ r.end - r.base \in Nat /\ r.base + (r.end - r.base) = r.end
          /\ r.base + (r.end - r.base) <= Top
        BY Lines
    <2>2. /\ Ins(l, r) \in Lists
          /\ \A p \in Int : \A t : Has(Ins(l, r), p, t) <=>
                IF r.base <= p /\ p < r.base + (r.end - r.base) THEN t = tag ELSE Has(l, p, t)
        BY <2>1, Inserts
    <2> HIDE DEF Ins
    <2> QED BY <2>1, <2>2
<1> HIDE DEF Ins
<1>2. G \in [M -> [Lists -> Lists]]
    BY <1>1
<1>3. PICK g \in [SUBSET M -> Lists] : Folds(g, SUBSET M, ranges, G)
    <2> HIDE DEF G
    <2> QED BY <1>2, FoldsExists
<1>4. ASSUME NEW s \in SUBSET M
      PROVE  g[s] = IF s = {} THEN ranges ELSE Ins(g[s \ {Chosen(s)}], Chosen(s))
    <2>1. g[s] = IF s = {} THEN ranges ELSE G[Chosen(s)][g[s \ {Chosen(s)}]]
        <3> HIDE DEF G
        <3> QED BY <1>3 DEF Folds
    <2>2. CASE s # {}
        <3>1. Chosen(s) \in M /\ g[s \ {Chosen(s)}] \in Lists
            BY <2>2, Smaller
        <3> QED BY <2>1, <2>2, <3>1
    <2> QED BY <2>1, <2>2
<1>5. Eq(g)
    <2>1. g = [s \in SUBSET M |-> IF s = {} THEN ranges
                                  ELSE Ins(g[s \ {Chosen(s)}], Chosen(s))]
        BY <1>3, <1>4
    <2> QED BY <2>1, Zenon DEF Ins, Chosen
<1>6. Eq(h)
    BY <1>5, Zenon DEF FoldFn
<1>7. memranges_add_resources(ranges, M, tag) = h[M]
    BY DEF memranges_add_resources, FoldSet, MapThenFoldSet, FoldFn
<1> HIDE DEF h
<1>8. \A s \in SUBSET M : h[s] = IF s = {} THEN ranges ELSE Ins(h[s \ {Chosen(s)}], Chosen(s))
    <2>1. h = [s \in SUBSET M |-> IF s = {} THEN ranges
                                  ELSE Ins(h[s \ {Chosen(s)}], Chosen(s))]
        BY <1>6, Zenon DEF Ins, Chosen
    <2> QED BY ONLY <2>1
<1> DEFINE T == {s \in SUBSET M : /\ h[s] \in Lists
                                  /\ \A p \in Int : \A t : Has(h[s], p, t) <=>
                                       IF Among(s, p) THEN t = tag ELSE Has(ranges, p, t)}
<1>9. {} \in T
    <2>1. h[{}] = ranges
        BY <1>8
    <2> QED BY <2>1 DEF Among
<1>10. ASSUME NEW s \in SUBSET M, s # {}, s \ {Chosen(s)} \in T PROVE s \in T
    <2> DEFINE c == Chosen(s)
               l == h[s \ {Chosen(s)}]
    <2>1. c \in M /\ c \in s
        BY <1>10, Smaller
    <2>2. /\ l \in Lists
          /\ \A p \in Int : \A t : Has(l, p, t) <=>
                IF Among(s \ {c}, p) THEN t = tag ELSE Has(ranges, p, t)
        BY <1>10
    <2>3. h[s] = Ins(l, c)
        BY <1>8, <1>10
    <2> HIDE DEF c, l
    <2>4. /\ Ins(l, c) \in Lists
          /\ \A p \in Int : \A t : Has(Ins(l, c), p, t) <=>
                   IF c.base <= p /\ p < c.end THEN t = tag ELSE Has(l, p, t)
        BY <1>1, <2>1, <2>2
    <2>5. \A p \in Int : Among(s, p) <=> (c.base <= p /\ p < c.end) \/ Among(s \ {c}, p)
        BY <2>1 DEF Among
    <2>6. ASSUME NEW p \in Int, NEW t
          PROVE  Has(h[s], p, t) <=> IF Among(s, p) THEN t = tag ELSE Has(ranges, p, t)
        <3>1. Has(h[s], p, t) <=> IF c.base <= p /\ p < c.end THEN t = tag ELSE Has(l, p, t)
            BY <2>3, <2>4
        <3>2. Has(l, p, t) <=> IF Among(s \ {c}, p) THEN t = tag ELSE Has(ranges, p, t)
            BY <2>2
        <3>3. Among(s, p) <=> (c.base <= p /\ p < c.end) \/ Among(s \ {c}, p)
            BY <2>5
        <3> QED BY <3>1, <3>2, <3>3
    <2>7. h[s] \in Lists
        BY <2>3, <2>4
    <2> QED BY <2>6, <2>7
<1>11. M \in T
    <2> HIDE DEF T
    <2> QED BY <1>9, <1>10, Gather
<1> QED BY <1>7, <1>11

\* The resources: memory from address 0 on, and no hole behind an entry that
\* crosses 4 GiB.
Resources ==
    /\ resources \in SUBSET Resource /\ IsFiniteSet(resources)
    /\ \E r \in resources : r.base = 0 /\ r.type = WB
    /\ ~HoleBehindLimit(Collected, RANGE_4GB)

\* In, in terms of the ends of the resources.
LEMMA InRange ==
    ASSUME resources \in SUBSET Resource, NEW p \in Int
    PROVE  /\ \A t : In(p, t) <=> \E r \in resources : r.type = t /\ r.base <= p /\ p < r.end
           /\ \A t : In(p, t) => 0 <= p /\ p < Top
<1>1. \A r \in resources : r.base \in Nat /\ r.end \in Nat /\ r.end <= Top
    BY Lines
<1>2. \A r \in resources : p \in r.base .. r.end - 1 <=> r.base <= p /\ p < r.end
    BY <1>1
<1>3. \A t : In(p, t) <=> \E r \in resources : r.type = t /\ r.base <= p /\ p < r.end
    BY <1>2 DEF In
<1> QED BY <1>1, <1>3, Lines

\* The list of the resources: write-combining wins, then uncacheable.
LEMMA CollectedRight ==
    ASSUME resources \in SUBSET Resource, IsFiniteSet(resources)
    PROVE  /\ Collected \in Lists
           /\ \A p \in Int : \A t : Has(Collected, p, t) <=>
                 IF In(p, WC) THEN t = WC ELSE IF In(p, UC) THEN t = UC
                 ELSE In(p, WB) /\ t = WB
<1> DEFINE of(types) == {r \in resources : r.type \in types}
           a == memranges_add_resources(<<>>, of({WB}), WB)
           b == memranges_add_resources(a, of({UC, WC}), UC)
           c == memranges_add_resources(b, of({WC}), WC)
<1>1. \A types : of(types) \in SUBSET Resource /\ IsFiniteSet(of(types))
    <2>1. \A types : of(types) \subseteq resources
        OBVIOUS
    <2> HIDE DEF of
    <2> QED BY <2>1, FS_Subset
<1>2. \A p \in Int : /\ Among(of({WB}), p) <=> In(p, WB)
                     /\ Among(of({WC}), p) <=> In(p, WC)
                     /\ Among(of({UC, WC}), p) <=> In(p, UC) \/ In(p, WC)
    <2> TAKE p \in Int
    <2>1. \A t : In(p, t) <=> \E r \in resources : r.type = t /\ r.base <= p /\ p < r.end
        BY InRange
    <2> QED BY <2>1 DEF Among
<1>3. Collected = c
    BY DEF Collected
<1> HIDE DEF of
<1>4. <<>> \in Lists /\ \A p, t : ~Has(<<>>, p, t)
    <2>1. Len(<<>>) = 0 /\ <<>> \in Seq(Ent)
        OBVIOUS
    <2>2. Merged(<<>>)
        BY <2>1 DEF Merged
    <2>3. Within(<<>>, 0, Top)
        BY NoEntries DEF Within
    <2> QED BY <2>1, <2>2, <2>3, NoEntries DEF Lists
<1>5. a \in Lists /\ \A p \in Int : \A t : Has(a, p, t) <=>
            IF Among(of({WB}), p) THEN t = WB ELSE Has(<<>>, p, t)
    BY <1>1, <1>4, Tags, AddRight
<1> HIDE DEF a
<1>6. b \in Lists /\ \A p \in Int : \A t : Has(b, p, t) <=>
            IF Among(of({UC, WC}), p) THEN t = UC ELSE Has(a, p, t)
    BY <1>1, <1>5, Tags, AddRight
<1> HIDE DEF b
<1>7. c \in Lists /\ \A p \in Int : \A t : Has(c, p, t) <=>
            IF Among(of({WC}), p) THEN t = WC ELSE Has(b, p, t)
    BY <1>1, <1>6, Tags, AddRight
<1> HIDE DEF c
<1>8. ASSUME NEW p \in Int, NEW t
      PROVE Has(c, p, t) <=>
                 IF In(p, WC) THEN t = WC ELSE IF In(p, UC) THEN t = UC
                 ELSE In(p, WB) /\ t = WB
    <2>1. Has(c, p, t) <=> IF In(p, WC) THEN t = WC ELSE Has(b, p, t)
        BY <1>2, <1>7
    <2>2. Has(b, p, t) <=> IF In(p, UC) \/ In(p, WC) THEN t = UC ELSE Has(a, p, t)
        BY <1>2, <1>6
    <2>3. Has(a, p, t) <=> IF In(p, WB) THEN t = WB ELSE FALSE
        BY <1>2, <1>4, <1>5
    <2> QED BY <2>1, <2>2, <2>3
<1> QED BY <1>3, <1>7, <1>8

\* The list as MTRR calculations want it, of the pages that are wanted.
SpaceRight(s) ==
    /\ List(s) /\ Merged(s) /\ Within(s, 0, Top) /\ Tagged(s, {UC, WC, WB})
    /\ \A p \in Int : \A t : Has(s, p, t) <=> p \in Described /\ t = Wanted(p)

\* get_physical_address_space, the first time.
LEMMA FirstSpace ==
    ASSUME Resources
    PROVE  SpaceRight(memranges_fill_holes_up_to(Collected, RANGE_4GB, UC))
<1> DEFINE s == Collected
           m == memranges_fill_holes_up_to(Collected, RANGE_4GB, UC)
<1>1. /\ List(s) /\ Merged(s) /\ Solid(s) /\ Within(s, 0, Top) /\ ~HoleBehindLimit(s, RANGE_4GB)
      /\ \A p \in Int : \A t : Has(s, p, t) <=>
            IF In(p, WC) THEN t = WC ELSE IF In(p, UC) THEN t = UC ELSE In(p, WB) /\ t = WB
    BY CollectedRight DEF Resources, Lists
<1>2. m = memranges_fill_holes_up_to(s, RANGE_4GB, UC)
    OBVIOUS
<1> HIDE DEF s
<1>3. \E t : Has(s, 0, t)
    <2>1. PICK r \in resources : r.base = 0 /\ r.type = WB
        BY DEF Resources
    <2>2. In(0, WB)
        <3>1. r.base < r.end
            BY Lines DEF Resources
        <3>2. resources \in SUBSET Resource /\ 0 \in Int
            BY DEF Resources
        <3> QED BY <2>1, <3>1, <3>2, InRange
    <2> QED BY <1>1, <2>2
<1>4. s # <<>> /\ s[1].begin = 0
    <2>1. s # <<>>
        BY <1>3, NoEntries
    <2>2. PICK i \in 1 .. Len(s) : s[i].begin <= 0
        BY <1>1, <1>3, Members DEF Has, On, List
    <2>3. 1 \in 1 .. Len(s) /\ 1 <= i
        BY <1>1, <2>2, Members DEF List
    <2>4. s[1].begin <= s[i].begin /\ s[1].begin \in Int /\ s[i].begin \in Int
        BY <1>1, <2>3, Apart
    <2>5. 0 <= s[1].begin
        BY <1>1, <2>3, Members DEF Within, List
    <2> QED BY <2>1, <2>2, <2>4, <2>5
<1>5. s[1].begin < RANGE_4GB /\ RANGE_4GB \in Int /\ RANGE_4GB <= Top /\ 0 \in Int /\ Top \in Int
    BY <1>4, Lines
<1>6. /\ List(m) /\ Merged(m)
      /\ \A p \in Int : \A t : Has(m, p, t) <=>
                        \/ Has(s, p, t)
                        \/ /\ t = UC /\ s[1].begin <= p /\ p < RANGE_4GB
                           /\ \A u : ~Has(s, p, u)
      /\ \A a \in Int, c \in Int : Within(s, a, c) /\ RANGE_4GB <= c => Within(m, a, c)
      /\ \A T : Tagged(s, T) /\ UC \in T => Tagged(m, T)
    BY <1>1, <1>2, <1>4, <1>5, Tags, FillRight
<1> HIDE DEF m
<1>7. Within(m, 0, Top)
    BY <1>1, <1>5, <1>6
<1>8. Tagged(s, {UC, WC, WB})
    <2> SUFFICES ASSUME NEW e \in Range(s) PROVE e.tag \in {UC, WC, WB}
        BY DEF Tagged
    <2>1. e \in Ent
        BY <1>1, Members DEF List
    <2>2. On(e, e.begin) /\ e.begin \in Int
        BY <1>1, <2>1, EntForm DEF On, Solid
    <2>3. Has(s, e.begin, e.tag)
        BY <2>2 DEF Has
    <2> QED BY <1>1, <2>2, <2>3
<1>9. Tagged(m, {UC, WC, WB})
    BY <1>6, <1>8
<1>10. ASSUME NEW p \in Int, NEW t
       PROVE  Has(m, p, t) <=> p \in Described /\ t = Wanted(p)
    <2>1. Has(m, p, t) <=> \/ Has(s, p, t)
                           \/ /\ t = UC /\ 0 <= p /\ p < RANGE_4GB
                              /\ \A u : ~Has(s, p, u)
        BY <1>4, <1>6
    <2>2. \A u : Has(s, p, u) <=> IF In(p, WC) THEN u = WC ELSE IF In(p, UC) THEN u = UC
                                  ELSE In(p, WB) /\ u = WB
        BY <1>1
    <2>3. (\A u : ~Has(s, p, u)) <=> ~(In(p, WC) \/ In(p, UC) \/ In(p, WB))
        BY <2>2
    <2>4. In(p, WC) \/ In(p, UC) \/ In(p, WB) => 0 <= p /\ p < Top
        BY InRange DEF Resources
    <2>5. p \in Described <=> (0 <= p /\ p < RANGE_4GB) \/ In(p, WC) \/ In(p, UC) \/ In(p, WB)
        <3>1. p \in Page <=> 0 <= p /\ p < Top
            BY Lines DEF Page
        <3> QED BY <2>4, <3>1, Lines DEF Described
    <2> QED BY <2>1, <2>2, <2>3, <2>5 DEF Wanted
<1> QED BY <1>6, <1>7, <1>9, <1>10 DEF SpaceRight, m

-----------------------------------------------------------------------------
(* Powers of two and the pieces of a range.                                *)

\* A bounded set of numbers has a greatest element.
LEMMA Greatest ==
    ASSUME NEW n \in Nat, NEW T \in SUBSET (0 .. n), T # {}
    PROVE  \E x \in T : \A y \in T : y <= x
<1> DEFINE U == {n - x : x \in T}
<1>1. U \in SUBSET Nat /\ U # {}
    <2>1. \A x \in T : x \in 0 .. n
        OBVIOUS
    <2>2. \A x \in T : n - x \in Nat
        BY <2>1
    <2>3. \A u \in U : u \in Nat
        BY <2>2
    <2> QED BY <2>3
<1>2. PICK u \in U : \A v \in U : u <= v
    <2> HIDE DEF U
    <2> QED BY <1>1, Least
<1>3. PICK x \in T : u = n - x
    OBVIOUS
<1>4. \A y \in T : n - x <= n - y
    BY <1>2, <1>3
<1>5. \A y \in T : y <= x
    BY <1>4
<1> QED BY <1>5

\* Powers of two grow.
LEMMA BitsGrow ==
    ASSUME NEW i \in 0 .. AddressBits + 1, NEW j \in 0 .. AddressBits + 1, i <= j
    PROVE  Bit[i] <= Bit[j]
<1> DEFINE n == AddressBits + 1
           T == {k \in 0 .. n : i <= k => Bit[i] <= Bit[k]}
<1>0. n \in Nat /\ AddressBits \in Nat /\ \A k \in 0 .. n : Bit[k] \in Nat \ {0}
    BY Bits
<1>1. 0 \in T
    BY <1>0
<1>2. ASSUME NEW k \in 0 .. n - 1, k \in T PROVE k + 1 \in T
    <2>1. k + 1 \in 0 .. n /\ k \in 0 .. AddressBits /\ k \in 0 .. n
        BY <1>0
    <2>2. Bit[k + 1] = 2 * Bit[k]
        BY <2>1, Bits
    <2>3. Bit[k] \in Nat /\ Bit[i] \in Nat /\ Bit[k + 1] \in Nat
        BY <1>0, <2>1
    <2>4. i <= k => Bit[i] <= Bit[k]
        BY <1>2
    <2>5. i <= k + 1 => i <= k \/ i = k + 1
        BY <2>1
    <2>6. i <= k + 1 => Bit[i] <= Bit[k + 1]
        BY <2>2, <2>3, <2>4, <2>5
    <2> QED BY <2>1, <2>6
<1>3. \A k \in 0 .. n : k \in T
    <2> HIDE DEF T, n
    <2> QED BY <1>0, <1>1, <1>2, Climb
<1> QED BY <1>3

\* Division and remainder.
LEMMA Divides ==
    ASSUME NEW x \in Nat, NEW a \in Nat \ {0}
    PROVE  /\ x \div a \in Nat /\ x % a \in Nat /\ x % a < a
           /\ x = a * (x \div a) + (x % a)
<1>1. x % a \in Nat /\ x % a < a
    OBVIOUS
<1>2. x \div a \in Nat
    OBVIOUS
<1>3. x = a * (x \div a) + (x % a)
    OBVIOUS
<1> QED BY <1>1, <1>2, <1>3

\* A variable MTRR covers the pages of its range and no others.
LEMMA CoversRange ==
    ASSUME NEW b \in Nat, NEW q \in Nat \ {0}, b % q = 0, NEW p \in Nat
    PROVE  p \div q = b \div q <=> b <= p /\ p < b + q
<1>1. PICK k \in Nat : b = q * k /\ b \div q = k
    BY Divides
<1>2. PICK m \in Nat, c \in Nat : p = q * m + c /\ p \div q = m /\ c < q
    BY Divides
<1>3. CASE m = k
    BY <1>1, <1>2, <1>3
<1>4. CASE m < k
    <2>1. q * (m + 1) <= q * k
        BY <1>1, <1>2, <1>4
    <2>2. p < b
        BY <1>1, <1>2, <2>1
    <2> QED BY <1>1, <1>2, <1>4, <2>2
<1>5. CASE k < m
    <2>1. q * (k + 1) <= q * m
        BY <1>1, <1>2, <1>5
    <2>2. b + q <= p
        BY <1>1, <1>2, <2>1
    <2> QED BY <1>1, <1>2, <1>5, <2>2
<1> QED BY <1>1, <1>2, <1>3, <1>4, <1>5

\* The largest power of two that fits and keeps the base aligned.
LEMMA LargestRight ==
    ASSUME NEW base \in Nat, NEW size \in Nat \ {0}, size < 2 * Top
    PROVE  /\ Largest(base, size) \in Nat \ {0} /\ Largest(base, size) <= size
           /\ base % Largest(base, size) = 0
<1> DEFINE T == {i \in 0 .. AddressBits : Bit[i] <= size /\ base % Bit[i] = 0}
           P(q) == /\ q <= size /\ base % q = 0
                   /\ 2 * q > size \/ base % (2 * q) # 0
<1>0. AddressBits \in Nat
    BY Bits
<1>1. 0 \in T
    <2>1. Bit[0] = 1 /\ 0 \in 0 .. AddressBits
        BY <1>0, Bits
    <2>2. base % 1 = 0
        OBVIOUS
    <2> QED BY <2>1, <2>2
<1>2. PICK i \in T : \A j \in T : j <= i
    <2>1. T \in SUBSET (0 .. AddressBits) /\ T # {}
        BY <1>1
    <2> HIDE DEF T
    <2> QED BY <1>0, <2>1, Greatest
<1>3. i \in 0 .. AddressBits /\ Bit[i] \in Nat \ {0} /\ Bit[i] <= size /\ base % Bit[i] = 0
    BY Bits
<1>4. 2 * Bit[i] > size \/ base % (2 * Bit[i]) # 0
    <2>1. CASE i = AddressBits
        BY <1>3, <2>1, Bits
    <2>2. CASE i # AddressBits
        <3>1. i + 1 \in 0 .. AddressBits /\ ~(i + 1 <= i)
            BY <1>0, <1>3, <2>2
        <3>2. i + 1 \notin T
            BY <1>2, <3>1
        <3>3. Bit[i + 1] = 2 * Bit[i]
            BY <1>3, Bits
        <3>4. ~(2 * Bit[i] <= size /\ base % (2 * Bit[i]) = 0)
            BY <3>1, <3>2, <3>3
        <3> QED BY <1>3, <3>4
    <2> QED BY <2>1, <2>2
<1>5. \E q \in Pow2 : P(q)
    BY <1>3, <1>4 DEF Pow2
<1>6. Largest(base, size) = CHOOSE q \in Pow2 : P(q)
    BY DEF Largest
<1>7. Largest(base, size) \in Pow2 /\ P(Largest(base, size))
    BY <1>5, <1>6, Zenon
<1>8. \A q \in Pow2 : q \in Nat \ {0}
    BY Bits DEF Pow2
<1> QED BY <1>7, <1>8

\* A variable MTRR.
Reg == [base : Nat, size : Nat \ {0}, type : MtrrType]

\* The registers of c are of one type and cover the pages b .. e - 1.
Pieces(c, b, e, type) ==
    /\ c \in Seq(Reg)
    /\ \A r \in Range(c) : r.type = type
    /\ \A p \in Nat : (\E r \in Range(c) : Covers(r, p)) <=> b <= p /\ p < e

\* The register for one piece.
Piece(b, q, type) == [base |-> b, size |-> q, type |-> type]

\* A register and its fields.
LEMMA PieceFields ==
    ASSUME NEW b, NEW q, NEW t
    PROVE  /\ Piece(b, q, t).base = b /\ Piece(b, q, t).size = q /\ Piece(b, q, t).type = t
           /\ b \in Nat /\ q \in Nat \ {0} /\ t \in MtrrType => Piece(b, q, t) \in Reg
<1>1. Piece(b, q, t).base = b /\ Piece(b, q, t).size = q /\ Piece(b, q, t).type = t
    BY DEF Piece
<1>2. b \in Nat /\ q \in Nat \ {0} /\ t \in MtrrType => Piece(b, q, t) \in Reg
    BY Zenon DEF Piece, Reg
<1> QED BY <1>1, <1>2

\* A register in front of others.
LEMMA Prefix ==
    ASSUME NEW S, NEW x \in S, NEW s \in Seq(S)
    PROVE  <<x>> \o s \in Seq(S) /\ Range(<<x>> \o s) = {x} \cup Range(s)
<1>1. <<x>> \in Seq(S) /\ Len(<<x>>) = 1 /\ <<x>>[1] = x
    OBVIOUS
<1>2. <<x>> \o s \in Seq(S) /\ Len(<<x>> \o s) = 1 + Len(s) /\ Len(s) \in Nat
    BY <1>1
<1>3. /\ \A y : y \in Range(<<x>> \o s) <=> \E i \in 1 .. 1 + Len(s) : y = (<<x>> \o s)[i]
      /\ \A y : y \in Range(s) <=> \E i \in 1 .. Len(s) : y = s[i]
    BY <1>2, Members
<1>4. (<<x>> \o s)[1] = x /\ \A i \in 1 .. Len(s) : (<<x>> \o s)[i + 1] = s[i]
    BY <1>1, <1>2
<1>5. ASSUME NEW y, y \in Range(<<x>> \o s) PROVE y = x \/ y \in Range(s)
    <2>1. PICK i \in 1 .. 1 + Len(s) : y = (<<x>> \o s)[i]
        BY <1>3, <1>5
    <2>2. CASE i = 1
        BY <1>4, <2>1, <2>2
    <2>3. CASE i # 1
        <3>1. i - 1 \in 1 .. Len(s) /\ (i - 1) + 1 = i
            BY <1>2, <2>3
        <3>2. y = s[i - 1]
            BY <1>4, <2>1, <3>1
        <3> QED BY <1>3, <3>1, <3>2
    <2> QED BY <2>2, <2>3
<1>6. ASSUME NEW y, y = x \/ y \in Range(s) PROVE y \in Range(<<x>> \o s)
    <2>1. CASE y = x
        <3>1. 1 \in 1 .. 1 + Len(s)
            BY <1>2
        <3> QED BY <1>3, <1>4, <2>1, <3>1
    <2>2. CASE y \in Range(s)
        <3>1. PICK i \in 1 .. Len(s) : y = s[i]
            BY <1>3, <2>2
        <3>2. i + 1 \in 1 .. 1 + Len(s)
            BY <1>2
        <3> QED BY <1>3, <1>4, <3>1, <3>2
    <2> QED BY <1>6, <2>1, <2>2
<1>7. \A y : y \in Range(<<x>> \o s) <=> y = x \/ y \in Range(s)
    BY <1>5, <1>6
<1> QED BY <1>2, <1>7

\* The loop of calc_var_mtrr_range as the provers see it.
CutFn(base0, size0, type) ==
    CHOOSE f : f = [size \in 0 .. size0 |->
        IF size = 0 THEN <<>>
        ELSE <<[base |-> base0 + size0 - size,
                size |-> Largest(base0 + size0 - size, size), type |-> type]>>
             \o f[size - Largest(base0 + size0 - size, size)]]

\* calc_var_mtrr_range cuts a range into registers that cover it and no more.
LEMMA CutRight ==
    ASSUME NEW base0 \in Nat, NEW size0 \in Nat, size0 < 2 * Top, NEW type \in MtrrType
    PROVE  Pieces(calc_var_mtrr_range(base0, size0, type), base0, base0 + size0, type)
<1> DEFINE B(k) == base0 + size0 - k
           Q(k) == Largest(B(k), k)
           X(k) == Piece(B(k), Q(k), type)
           Turn(f, k) == IF k = 0 THEN <<>> ELSE <<X(k)>> \o f[k - Q(k)]
           h == CutFn(base0, size0, type)
           T == {n \in 0 .. size0 : \E f \in [0 .. n -> Seq(Reg)] :
                                       \A k \in 0 .. n : f[k] = Turn(f, k)}
<1>1. ASSUME NEW k \in 0 .. size0, k # 0
      PROVE  /\ B(k) \in Nat /\ Q(k) \in Nat \ {0} /\ Q(k) <= k /\ B(k) % Q(k) = 0
             /\ X(k) \in Reg /\ X(k).base = B(k) /\ X(k).size = Q(k) /\ X(k).type = type
    <2>1. B(k) \in Nat /\ k \in Nat \ {0} /\ k < 2 * Top
        BY <1>1, Lines
    <2>2. Q(k) \in Nat \ {0} /\ Q(k) <= k /\ B(k) % Q(k) = 0
        <3> HIDE DEF B
        <3> QED BY <2>1, LargestRight
    <2> HIDE DEF B, Q
    <2> QED BY <2>1, <2>2, PieceFields
<1> HIDE DEF Q, X
<1>2. 0 \in T
    <2> DEFINE f == [k \in 0 .. 0 |-> <<>>]
    <2>1. f \in [0 .. 0 -> Seq(Reg)]
        BY EmptySeq
    <2>2. \A k \in 0 .. 0 : f[k] = Turn(f, k)
        OBVIOUS
    <2> HIDE DEF f
    <2> QED BY <2>1, <2>2
<1>3. ASSUME NEW n \in 0 .. size0 - 1, n \in T PROVE n + 1 \in T
    <2>1. PICK f \in [0 .. n -> Seq(Reg)] : \A k \in 0 .. n : f[k] = Turn(f, k)
        BY <1>3
    <2> HIDE DEF T
    <2>2. n + 1 \in 0 .. size0 /\ n + 1 # 0 /\ n \in Nat
        OBVIOUS
    <2> DEFINE m == n + 1
               v == <<X(m)>> \o f[m - Q(m)]
               g == [k \in 0 .. m |-> IF k = m THEN v ELSE f[k]]
    <2>3. m - Q(m) \in 0 .. n /\ X(m) \in Reg
        <3>1. Q(m) \in Nat \ {0} /\ Q(m) <= m /\ X(m) \in Reg
            <4> HIDE DEF B
            <4> QED BY <1>1, <2>2
        <3> QED BY <2>2, <3>1
    <2>4. v \in Seq(Reg)
        <3>1. f[m - Q(m)] \in Seq(Reg)
            BY <2>3
        <3> HIDE DEF m
        <3> QED BY <2>3, <3>1, Prefix
    <2> HIDE DEF v
    <2>5. g \in [0 .. m -> Seq(Reg)]
        <3>1. \A k \in 0 .. m : k # m => k \in 0 .. n
            BY <2>2
        <3> QED BY <2>4, <3>1
    <2>6. ASSUME NEW k \in 0 .. m PROVE g[k] = Turn(g, k)
        <3>1. CASE k = m
            <4>1. m - Q(m) \in 0 .. m /\ m - Q(m) # m
                BY <2>2, <2>3
            <4>2. g[m - Q(m)] = f[m - Q(m)] /\ g[m] = v
                BY <2>2, <4>1
            <4> HIDE DEF g
            <4> QED BY <2>2, <3>1, <4>2 DEF v
        <3>2. CASE k # m
            <4>1. k \in 0 .. n /\ k \in 0 .. size0
                BY <2>2, <3>2
            <4>2. g[k] = Turn(f, k)
                BY <2>1, <3>2, <4>1
            <4>3. k # 0 => k - Q(k) \in 0 .. m /\ k - Q(k) # m
                <5>1. k # 0 => Q(k) \in Nat \ {0} /\ Q(k) <= k
                    <6> HIDE DEF B
                    <6> QED BY <1>1, <4>1
                <5> QED BY <2>2, <4>1, <5>1
            <4>4. k # 0 => g[k - Q(k)] = f[k - Q(k)]
                BY <4>3
            <4> HIDE DEF g
            <4> QED BY <4>2, <4>4
        <3> QED BY <3>1, <3>2
    <2> HIDE DEF g
    <2> QED BY <2>2, <2>5, <2>6 DEF T
<1>4. size0 \in T
    <2> HIDE DEF T
    <2>1. \A i \in 0 .. size0 : i \in T
        BY <1>2, <1>3, Climb
    <2> QED BY <2>1
<1>5. PICK g \in [0 .. size0 -> Seq(Reg)] : \A k \in 0 .. size0 : g[k] = Turn(g, k)
    BY <1>4
<1> HIDE DEF T
<1>6. g = [k \in 0 .. size0 |-> Turn(g, k)]
    BY <1>5
<1>7. h = [k \in 0 .. size0 |-> Turn(h, k)]
    BY <1>6, Zenon DEF CutFn, X, Q, Piece
<1>8. calc_var_mtrr_range(base0, size0, type) = h[size0]
    BY DEF calc_var_mtrr_range, CutFn
<1> HIDE DEF h
<1>9. \A k \in 0 .. size0 : h[k] = Turn(h, k)
    BY ONLY <1>7
<1> DEFINE e == base0 + size0
           U == {n \in 0 .. size0 : \A k \in 0 .. n : Pieces(h[k], B(k), e, type)}
<1>10. Pieces(h[0], B(0), e, type)
    <2>1. h[0] = <<>>
        <3> HIDE DEF B
        <3>1. 0 \in 0 .. size0
            OBVIOUS
        <3> QED BY <1>9, <3>1
    <2>3. B(0) = e
        OBVIOUS
    <2>2. Range(<<>>) = {} /\ <<>> \in Seq(Reg)
        BY DEF Range
    <2>4. e \in Nat
        OBVIOUS
    <2> HIDE DEF B, e
    <2> QED BY <2>1, <2>2, <2>3, <2>4 DEF Pieces
<1>11. 0 \in U
    <2>1. \A k \in 0 .. 0 : k = 0
        OBVIOUS
    <2>2. 0 \in 0 .. size0
        OBVIOUS
    <2> HIDE DEF B, e
    <2> QED BY <1>10, <2>1, <2>2
<1>12. ASSUME NEW n \in 0 .. size0 - 1, n \in U PROVE n + 1 \in U
    <2> DEFINE m == n + 1
    <2>1. m \in 0 .. size0 /\ m # 0 /\ n \in Nat
        OBVIOUS
    <2> HIDE DEF m
    <2>2. /\ B(m) \in Nat /\ Q(m) \in Nat \ {0} /\ Q(m) <= m /\ B(m) % Q(m) = 0
          /\ X(m) \in Reg /\ X(m).base = B(m) /\ X(m).size = Q(m) /\ X(m).type = type
        BY <1>1, <2>1
    <2>3. m - Q(m) \in 0 .. n
        BY <2>1, <2>2 DEF m
    <2>4. Pieces(h[m - Q(m)], B(m - Q(m)), e, type)
        BY <1>12, <2>3
    <2>5. h[m] = <<X(m)>> \o h[m - Q(m)]
        BY <1>9, <2>1
    <2>6. h[m] \in Seq(Reg) /\ Range(h[m]) = {X(m)} \cup Range(h[m - Q(m)])
        BY <2>2, <2>4, <2>5, Prefix DEF Pieces
    <2>7. B(m - Q(m)) = B(m) + Q(m) /\ B(m) + Q(m) <= e
        BY <2>1, <2>2
    <2>8. ASSUME NEW p \in Nat
          PROVE  (\E r \in Range(h[m]) : Covers(r, p)) <=> B(m) <= p /\ p < e
        <3>1. Covers(X(m), p) <=> B(m) <= p /\ p < B(m) + Q(m)
            <4> HIDE DEF B
            <4>1. p \div Q(m) = B(m) \div Q(m) <=> B(m) <= p /\ p < B(m) + Q(m)
                BY <2>2, CoversRange
            <4> QED BY <2>2, <4>1 DEF Covers
        <3>2. (\E r \in Range(h[m - Q(m)]) : Covers(r, p)) <=> B(m) + Q(m) <= p /\ p < e
            BY <2>4, <2>7 DEF Pieces
        <3>3. (\E r \in Range(h[m]) : Covers(r, p)) <=>
                  Covers(X(m), p) \/ \E r \in Range(h[m - Q(m)]) : Covers(r, p)
            BY <2>6
        <3>4. B(m) \in Nat /\ Q(m) \in Nat /\ e \in Nat /\ B(m) + Q(m) <= e
            BY <2>2, <2>7
        <3> HIDE DEF B, e
        <3> QED BY <3>1, <3>2, <3>3, <3>4
    <2>9. \A r \in Range(h[m]) : r.type = type
        BY <2>2, <2>4, <2>6 DEF Pieces
    <2>10. Pieces(h[m], B(m), e, type)
        BY <2>6, <2>8, <2>9 DEF Pieces
    <2>11. \A k \in 0 .. m : k = m \/ k \in 0 .. n
        BY <2>1 DEF m
    <2>12. \A k \in 0 .. m : Pieces(h[k], B(k), e, type)
        BY <1>12, <2>10, <2>11
    <2> QED BY <2>1, <2>12 DEF m
<1>13. size0 \in U
    <2> HIDE DEF U
    <2>1. \A i \in 0 .. size0 : i \in U
        BY <1>11, <1>12, Climb
    <2> QED BY <2>1
<1>14. size0 \in 0 .. size0 /\ B(size0) = base0
    OBVIOUS
<1>15. Pieces(h[size0], B(size0), e, type)
    BY <1>13, <1>14
<1> QED BY <1>8, <1>14, <1>15

\* The highest bit of a number.
LEMMA FmsRight ==
    ASSUME NEW x \in Nat \ {0}, x < 2 * Top
    PROVE  fms(x) \in 0 .. AddressBits /\ Bit[fms(x)] <= x
<1> DEFINE T == {i \in 0 .. AddressBits : Bit[i] <= x}
           P(i) == Bit[i] <= x /\ x < Bit[i+1]
<1>0. AddressBits \in Nat
    BY Bits
<1>1. 0 \in T
    BY <1>0, Bits
<1>2. PICK i \in T : \A j \in T : j <= i
    <2>1. T \in SUBSET (0 .. AddressBits) /\ T # {}
        BY <1>1
    <2> HIDE DEF T
    <2> QED BY <1>0, <2>1, Greatest
<1>3. i \in 0 .. AddressBits /\ Bit[i] \in Nat \ {0} /\ Bit[i] <= x /\ Bit[i + 1] = 2 * Bit[i]
    BY Bits
<1>4. x < Bit[i + 1]
    <2>1. CASE i = AddressBits
        BY <1>3, <2>1, Bits
    <2>2. CASE i # AddressBits
        <3>1. i + 1 \in 0 .. AddressBits /\ ~(i + 1 <= i)
            BY <1>0, <1>3, <2>2
        <3>2. i + 1 \notin T
            BY <1>2, <3>1
        <3> QED BY <1>3, <3>1, <3>2
    <2> QED BY <2>1, <2>2
<1>5. \E j \in 0 .. AddressBits : P(j)
    BY <1>3, <1>4
<1>6. fms(x) = CHOOSE j \in 0 .. AddressBits : P(j)
    BY DEF fms
<1>7. fms(x) \in 0 .. AddressBits /\ P(fms(x))
    BY <1>5, <1>6, Zenon
<1> QED BY <1>7

\* The lowest bit of a number.
LEMMA FlsRight ==
    ASSUME NEW x \in Nat \ {0}, x < 2 * Top
    PROVE  fls(x) \in 0 .. AddressBits
<1> DEFINE T == {i \in 0 .. AddressBits : x % Bit[i] = 0}
           P(i) == x % Bit[i] = 0 /\ x % Bit[i+1] # 0
<1>0. AddressBits \in Nat
    BY Bits
<1>1. 0 \in T
    <2>1. x % 1 = 0
        OBVIOUS
    <2> QED BY <1>0, <2>1, Bits
<1>2. PICK i \in T : \A j \in T : j <= i
    <2>1. T \in SUBSET (0 .. AddressBits) /\ T # {}
        BY <1>1
    <2> HIDE DEF T
    <2> QED BY <1>0, <2>1, Greatest
<1>3. i \in 0 .. AddressBits /\ x % Bit[i] = 0 /\ Bit[i + 1] = 2 * Bit[i]
    BY Bits
<1>4. x % Bit[i + 1] # 0
    <2>1. CASE i = AddressBits
        <3>1. Bit[i + 1] = 2 * Top /\ Top \in Nat \ {0}
            BY <1>3, <2>1, Bits
        <3>2. \A y \in Nat \ {0} : x < y => x % y = x
            OBVIOUS
        <3>3. x % (2 * Top) = x
            BY <3>1, <3>2
        <3> QED BY <3>1, <3>3
    <2>2. CASE i # AddressBits
        <3>1. i + 1 \in 0 .. AddressBits /\ ~(i + 1 <= i)
            BY <1>0, <1>3, <2>2
        <3>2. i + 1 \notin T
            BY <1>2, <3>1
        <3> QED BY <3>1, <3>2
    <2> QED BY <2>1, <2>2
<1>5. \E j \in 0 .. AddressBits : P(j)
    BY <1>3, <1>4
<1>6. fls(x) = CHOOSE j \in 0 .. AddressBits : P(j)
    BY DEF fls
<1>7. fls(x) \in 0 .. AddressBits /\ P(fls(x))
    BY <1>5, <1>6, Zenon
<1> QED BY <1>7

\* Rounding up stays below the next multiple.
LEMMA AlignRight ==
    ASSUME NEW x \in Nat, NEW a \in Nat \ {0}
    PROVE  ALIGN_UP(x, a) \in Nat /\ x <= ALIGN_UP(x, a) /\ ALIGN_UP(x, a) < x + a
<1> DEFINE y == x + a - 1
<1>1. y \in Nat
    OBVIOUS
<1>2. PICK k \in Nat, c \in Nat : y = a * k + c /\ y \div a = k /\ c < a
    <2> HIDE DEF y
    <2> QED BY <1>1, Divides
<1>3. ALIGN_UP(x, a) = k * a
    BY <1>2 DEF ALIGN_UP
<1>4. k * a = y - c /\ k * a \in Nat
    BY <1>2
<1> QED BY <1>2, <1>3, <1>4

\* What optimize_var_mtrr_hole takes among pairs of cost and end.
Best(C) ==
    (CHOOSE c \in C : \A d \in C : c[1] < d[1] \/ (c[1] = d[1] /\ c[2] <= d[2]))[2]

\* The cheapest choice, and the lowest of the cheapest, is one of the choices.
LEMMA Cheapest ==
    ASSUME NEW S \in SUBSET Nat, S # {}, NEW N \in [S -> Nat],
           NEW C, C = {<<N[e], e>> : e \in S}
    PROVE  Best(C) \in S
<1> DEFINE P(c) == \A d \in C : c[1] < d[1] \/ (c[1] = d[1] /\ c[2] <= d[2])
           U == {N[e] : e \in S}
<1>1. PICK u \in U : \A v \in U : u <= v
    <2>1. U \in SUBSET Nat /\ U # {}
        OBVIOUS
    <2> HIDE DEF U
    <2> QED BY <2>1, Least
<1> DEFINE V == {e \in S : N[e] = u}
<1>2. PICK f \in V : \A e \in V : f <= e
    <2>1. V \in SUBSET Nat /\ V # {}
        OBVIOUS
    <2> HIDE DEF V
    <2> QED BY <2>1, Least
<1>3. f \in S /\ N[f] = u
    OBVIOUS
<1>4. ASSUME NEW e \in S PROVE u < N[e] \/ (u = N[e] /\ f <= e)
    <2>1. u <= N[e] /\ N[e] \in Nat /\ u \in Nat
        BY <1>1
    <2>2. u = N[e] => f <= e
        BY <1>2
    <2> QED BY <2>1, <2>2
<1>5. P(<<u, f>>) /\ <<u, f>> \in C
    <2>1. <<u, f>> \in C
        BY <1>3
    <2>2. ASSUME NEW d \in C PROVE u < d[1] \/ (u = d[1] /\ f <= d[2])
        <3>1. PICK e \in S : d = <<N[e], e>>
            OBVIOUS
        <3> QED BY <1>4, <3>1
    <2> QED BY <2>1, <2>2
<1> DEFINE b == CHOOSE c \in C : P(c)
<1>6. b \in C
    <2> HIDE DEF P
    <2> QED BY <1>5
<1>7. b[2] \in S
    <2> HIDE DEF b
    <2> QED BY <1>6
<1> QED BY <1>7 DEF Best

\* optimize_var_mtrr_hole moves the end of a range up, within its limit.
LEMMA HoleEnd ==
    ASSUME NEW base \in Nat, NEW hole \in Nat \ {0}, base <= hole, hole <= Top,
           NEW limit \in Int, NEW carve \in BOOLEAN
    PROVE  LET b2 == optimize_var_mtrr_hole(base, hole, limit, carve)
           IN  /\ b2 \in Nat /\ hole <= b2 /\ (b2 = hole \/ b2 <= limit)
               /\ b2 - base \in Nat /\ b2 - base < 2 * Top
               /\ b2 - hole \in Nat /\ b2 - hole < 2 * Top
<1> DEFINE Count(b, size) == Len(calc_var_mtrr_range(b, size, UC))
           Ends == {ALIGN_UP(hole, Bit[align]) : align \in fls(hole) + 1 .. fms(hole)}
           Tried == {e \in Ends : e <= limit} \cup {hole}
           Cost(e) == Count(base, e - base) + (IF carve THEN Count(hole, e - hole) ELSE 0)
           N == [e \in Tried |-> Cost(e)]
           Costs == {<<Cost(e), e>> : e \in Tried}
<1>0. Top \in Nat \ {0} /\ hole < 2 * Top
    BY Bits
<1>1. fls(hole) \in 0 .. AddressBits /\ fms(hole) \in 0 .. AddressBits /\ Bit[fms(hole)] <= hole
      /\ AddressBits \in Nat
    BY <1>0, FlsRight, FmsRight, Bits
<1>2. ASSUME NEW e \in Ends PROVE e \in Nat /\ hole <= e /\ e < 2 * hole
    <2>1. PICK align \in fls(hole) + 1 .. fms(hole) : e = ALIGN_UP(hole, Bit[align])
        OBVIOUS
    <2>2. align \in 0 .. AddressBits + 1 /\ align <= fms(hole) /\ fms(hole) \in 0 .. AddressBits + 1
        BY <1>1
    <2>3. Bit[align] \in Nat \ {0} /\ Bit[fms(hole)] \in Nat
        BY <2>2, Bits
    <2>4. Bit[align] <= Bit[fms(hole)]
        BY <2>2, BitsGrow
    <2>5. Bit[align] <= hole
        BY <1>1, <2>3, <2>4
    <2>6. e \in Nat /\ hole <= e /\ e < hole + Bit[align]
        BY <2>1, <2>3, AlignRight
    <2> QED BY <2>3, <2>5, <2>6
<1> HIDE DEF Ends
<1>3. ASSUME NEW e \in Tried
      PROVE  /\ e \in Nat /\ hole <= e /\ (e = hole \/ e <= limit)
             /\ e - base \in Nat /\ e - base < 2 * Top
             /\ e - hole \in Nat /\ e - hole < 2 * Top
    <2>1. e \in Nat /\ hole <= e /\ e < 2 * hole /\ (e = hole \/ e <= limit)
        BY <1>2
    <2> QED BY <1>0, <2>1
<1> HIDE DEF Tried
<1>4. ASSUME NEW e \in Tried PROVE Cost(e) \in Nat
    <2>1. ASSUME NEW b \in Nat, NEW size \in Nat, size < 2 * Top PROVE Count(b, size) \in Nat
        BY <2>1, CutRight, Tags DEF Pieces
    <2> HIDE DEF Count
    <2> QED BY <1>3, <2>1
<1>5. optimize_var_mtrr_hole(base, hole, limit, carve) = Best(Costs)
    BY DEF optimize_var_mtrr_hole, Best, Tried, Ends
<1> HIDE DEF Cost
<1>6. N \in [Tried -> Nat] /\ \A e \in Tried : N[e] = Cost(e)
    BY <1>4
<1> HIDE DEF N
<1>7. Costs = {<<N[e], e>> : e \in Tried}
    BY <1>6
<1>8. Tried \in SUBSET Nat /\ Tried # {}
    <2>1. hole \in Tried
        BY DEF Tried
    <2> QED BY <1>3, <2>1
<1>9. Best(Costs) \in Tried
    <2> HIDE DEF Costs
    <2> QED BY <1>6, <1>7, <1>8, Cheapest
<1> QED BY <1>3, <1>5, <1>9

\* How far a write-back range may be rounded up.
LEMMA LimitRight ==
    ASSUME NEW s, List(s), NEW i \in 1 .. Len(s), NEW a1 \in Nat, NEW a2 \in Nat \ {0},
           a2 <= Top
    PROVE  LET hole == HoleLimit(s, i, a1, a2)
           IN  /\ hole.limit \in Int /\ hole.carve \in BOOLEAN
               /\ i # Len(s) =>
                     /\ hole.carve = TRUE
                     /\ hole.limit = IF s[i+1].tag = UC THEN s[i+1].end + 1 ELSE s[i+1].begin
<1>0. Len(s) \in Nat
    BY Members DEF List
<1>1. CASE i = Len(s)
    <2>1. a2 < 2 * Top
        BY Lines
    <2>2. fms(a2) \in 0 .. AddressBits /\ AddressBits \in Nat
        BY <2>1, FmsRight, Bits
    <2>3. Bit[fms(a2)] \in Nat \ {0}
        BY <2>2, Bits
    <2>4. ALIGN_UP(a2, Bit[fms(a2)]) \in Nat
        BY <2>3, AlignRight
    <2>5. (a1 < RANGE_4GB) \in BOOLEAN
        OBVIOUS
    <2> QED BY <1>1, <2>4, <2>5 DEF HoleLimit
<1>2. CASE i # Len(s)
    <2>1. i + 1 \in 1 .. Len(s)
        BY <1>0, <1>2
    <2>2. s[i + 1] \in Ent
        BY <2>1, Members DEF List
    <2>3. s[i + 1].begin \in Int /\ s[i + 1].end \in Int
        BY <2>2, EntForm
    <2> DEFINE L == IF s[i+1].tag = UC THEN s[i+1].end + 1 ELSE s[i+1].begin
    <2>4. HoleLimit(s, i, a1, a2) = [limit |-> L, carve |-> TRUE]
        BY <1>2 DEF HoleLimit, range_entry_end
    <2>5. L \in Int
        BY <2>3
    <2>6. /\ HoleLimit(s, i, a1, a2).limit = L
          /\ HoleLimit(s, i, a1, a2).carve = TRUE
        <3> HIDE DEF L
        <3> QED BY <2>4
    <2> QED BY <2>5, <2>6
<1> QED BY <1>1, <1>2

\* What the registers of R make of page p of list s, whichever entry it is on.
Fair(R, s, p) ==
    \A r \in Range(R) : \A j \in 1 .. Len(s) :
        Covers(r, p) /\ On(s[j], p) =>
            \/ r.type = s[j].tag
            \/ s[j].tag = UC /\ \E x \in Range(R) : Covers(x, p) /\ x.type = UC

\* The registers of one entry give its pages its type, and the pages of
\* others nothing that is not overruled.
LEMMA EntryRight ==
    ASSUME NEW s, List(s), Within(s, 0, Top), NEW i \in 1 .. Len(s), NEW above \in BOOLEAN
    PROVE  LET R == calc_var_mtrrs_with_hole(s, i, above)
           IN  /\ R \in Seq(Reg)
               /\ \A p \in Nat : RANGE_1MB <= p /\ (above \/ p < RANGE_4GB) =>
                     /\ Fair(R, s, p)
                     /\ On(s[i], p) => \E r \in Range(R) : Covers(r, p) /\ r.type = s[i].tag
<1> DEFINE R == calc_var_mtrrs_with_hole(s, i, above)
           bg == s[i].begin
           en == s[i].end + 1
           type == s[i].tag
           a1 == IF bg <= RANGE_1MB THEN 0 ELSE bg
           a2 == IF ~above /\ en > RANGE_4GB THEN RANGE_4GB ELSE en
           hole == HoleLimit(s, i, a1, a2)
           b2 == optimize_var_mtrr_hole(a1, a2, hole.limit, hole.carve)
           out == en <= RANGE_1MB \/ (~above /\ a1 >= RANGE_4GB)
           own == calc_var_mtrr_range(a1, b2 - a1, WB)
           cut == calc_var_mtrr_range(a2, b2 - a2, UC)
           car == IF hole.carve THEN cut ELSE <<>>
<1> SUFFICES /\ R \in Seq(Reg)
             /\ \A p \in Nat : RANGE_1MB <= p /\ (above \/ p < RANGE_4GB) =>
                   /\ Fair(R, s, p)
                   /\ On(s[i], p) => \E r \in Range(R) : Covers(r, p) /\ r.type = s[i].tag
    OBVIOUS
<1>1. /\ Len(s) \in Nat /\ s[i] \in Ent /\ s[i] \in Range(s)
    BY Members DEF List
<1>2. /\ bg \in Int /\ en \in Int /\ type \in MtrrType /\ 0 <= bg /\ en <= Top /\ bg <= en
      /\ s[i].end \in Int
    <2>1. /\ s[i].begin \in Int /\ s[i].end \in Int /\ type \in MtrrType
        BY <1>1, EntForm
    <2>2. 0 <= s[i].begin /\ s[i].end < Top /\ s[i].begin <= s[i].end + 1
        BY <1>1 DEF Within, List, Sorted
    <2> QED BY <2>1, <2>2, Lines
<1>3. R = IF out THEN <<>>
          ELSE IF type # WB THEN calc_var_mtrr_range(a1, a2 - a1, type)
          ELSE own \o car
    BY DEF calc_var_mtrrs_with_hole, range_entry_end
<1>4. \A p \in Nat : On(s[i], p) <=> bg <= p /\ p < en
    BY <1>2 DEF On
<1>5. CASE out
    <2>1. R = <<>> /\ Range(<<>>) = {} /\ <<>> \in Seq(Reg)
        BY <1>3, <1>5 DEF Range
    <2>2. ASSUME NEW p \in Nat, RANGE_1MB <= p, above \/ p < RANGE_4GB PROVE ~On(s[i], p)
        BY <1>2, <1>4, <1>5, <2>2, Lines
    <2> HIDE DEF R, out
    <2> QED BY <2>1, <2>2 DEF Fair
<1>6. CASE ~out
    <2>1. /\ a1 \in Nat /\ a2 \in Nat \ {0} /\ a1 <= a2 /\ a2 <= Top
          /\ a2 - a1 \in Nat /\ a2 - a1 < 2 * Top /\ a1 + (a2 - a1) = a2
        BY <1>2, <1>6, Lines
    <2>2. \A p \in Nat : RANGE_1MB <= p /\ (above \/ p < RANGE_4GB) =>
             /\ a1 <= p /\ p < a2 <=> On(s[i], p)
             /\ a2 <= p => en <= p
        BY <1>2, <1>4, <1>6, Lines
    <2>3. R = IF type # WB THEN calc_var_mtrr_range(a1, a2 - a1, type) ELSE own \o car
        BY <1>3, <1>6
    <2> HIDE DEF a1, a2, out, R
    <2>4. ASSUME NEW r, NEW p \in Int, NEW j \in 1 .. Len(s), On(s[i], p), On(s[j], p),
                 r = s[i].tag
          PROVE  r = s[j].tag
        BY <2>4, OnlyOne
    <2>5. CASE type # WB
        <3>1. Pieces(R, a1, a2, type)
            BY <1>2, <2>1, <2>3, <2>5, CutRight
        <3>2. ASSUME NEW p \in Nat, RANGE_1MB <= p, above \/ p < RANGE_4GB
              PROVE  /\ Fair(R, s, p)
                     /\ On(s[i], p) => \E r \in Range(R) : Covers(r, p) /\ r.type = s[i].tag
            <4>1. (\E r \in Range(R) : Covers(r, p)) <=> On(s[i], p)
                BY <2>2, <3>1, <3>2 DEF Pieces
            <4>2. \A r \in Range(R) : r.type = s[i].tag
                BY <3>1 DEF Pieces
            <4>3. p \in Int
                OBVIOUS
            <4> QED BY <2>4, <4>1, <4>2, <4>3 DEF Fair
        <3>3. R \in Seq(Reg)
            BY <3>1 DEF Pieces
        <3> QED BY <3>2, <3>3
    <2>6. CASE type = WB
        <3>1. /\ hole.limit \in Int /\ hole.carve \in BOOLEAN
              /\ i # Len(s) =>
                    /\ hole.carve = TRUE
                    /\ hole.limit = IF s[i+1].tag = UC THEN s[i+1].end + 1 ELSE s[i+1].begin
            BY <2>1, LimitRight
        <3> HIDE DEF hole
        <3>2. /\ b2 \in Nat /\ a2 <= b2 /\ (b2 = a2 \/ b2 <= hole.limit)
              /\ b2 - a1 \in Nat /\ b2 - a1 < 2 * Top
              /\ b2 - a2 \in Nat /\ b2 - a2 < 2 * Top
            BY <2>1, <3>1, HoleEnd
        <3> HIDE DEF b2
        <3>3. a1 + (b2 - a1) = b2 /\ a2 + (b2 - a2) = b2 /\ UC \in MtrrType /\ WB \in MtrrType
            BY <2>1, <3>2, Tags
        <3>4. Pieces(own, a1, b2, WB)
            BY <2>1, <3>2, <3>3, CutRight
        <3>5. Pieces(cut, a2, b2, UC)
            BY <2>1, <3>2, <3>3, CutRight
        <3> HIDE DEF own, cut
        <3>6. car \in Seq(Reg) /\ \A r : r \in Range(car) <=> hole.carve /\ r \in Range(cut)
            <4>1. CASE hole.carve
                BY <3>5, <4>1 DEF Pieces
            <4>2. CASE ~hole.carve
                <5>1. car = <<>> /\ Range(<<>>) = {} /\ <<>> \in Seq(Reg)
                    BY <4>2 DEF Range
                <5> QED BY <4>2, <5>1
            <4> QED BY <4>1, <4>2
        <3> HIDE DEF car
        <3>7. R \in Seq(Reg) /\ \A r : r \in Range(R) <=> r \in Range(own) \/ r \in Range(car)
            <4>1. R = own \o car /\ own \in Seq(Reg)
                BY <2>3, <2>6, <3>4 DEF Pieces
            <4>2. R \in Seq(Reg)
                BY <3>6, <4>1
            <4>3. Range(own \o car) = Range(own) \cup Range(car)
                BY <3>6, <4>1, RangeConcatenation
            <4> QED BY <4>1, <4>2, <4>3
        <3>8. ASSUME NEW p \in Nat, RANGE_1MB <= p, above \/ p < RANGE_4GB
              PROVE  /\ Fair(R, s, p)
                     /\ On(s[i], p) => \E r \in Range(R) : Covers(r, p) /\ r.type = s[i].tag
            <4>1. (\E r \in Range(own) : Covers(r, p)) <=> a1 <= p /\ p < b2
                BY <3>4 DEF Pieces
            <4>2. (\E r \in Range(cut) : Covers(r, p)) <=> a2 <= p /\ p < b2
                BY <3>5 DEF Pieces
            <4>3. /\ \A r \in Range(own) : r.type = WB
                  /\ \A r \in Range(cut) : r.type = UC
                BY <3>4, <3>5 DEF Pieces
            <4>4. On(s[i], p) => \E r \in Range(R) : Covers(r, p) /\ r.type = s[i].tag
                <5> SUFFICES ASSUME On(s[i], p)
                             PROVE  \E r \in Range(R) : Covers(r, p) /\ r.type = s[i].tag
                    OBVIOUS
                <5>1. a1 <= p /\ p < b2
                    BY <2>1, <2>2, <3>2, <3>8
                <5>2. PICK r \in Range(own) : Covers(r, p)
                    BY <4>1, <5>1
                <5> QED BY <2>6, <3>7, <4>3, <5>2
            <4>5. ASSUME NEW r \in Range(R), NEW j \in 1 .. Len(s), Covers(r, p), On(s[j], p)
                  PROVE  \/ r.type = s[j].tag
                         \/ s[j].tag = UC /\ \E x \in Range(R) : Covers(x, p) /\ x.type = UC
                <5>1. a1 <= p /\ p < b2
                    BY <2>1, <3>6, <3>7, <4>1, <4>2, <4>5
                <5>2. CASE p < a2
                    <6>1. On(s[i], p)
                        BY <2>2, <3>8, <5>1, <5>2
                    <6>2. r \in Range(own)
                        <7>1. a2 \in Nat
                            BY <2>1
                        <7> QED BY <3>6, <3>7, <4>2, <4>5, <5>2, <7>1
                    <6>3. r.type = s[i].tag /\ p \in Int
                        BY <2>6, <4>3, <6>2
                    <6> QED BY <2>4, <4>5, <6>1, <6>3
                <5>3. CASE a2 <= p
                    <6>1. en <= p
                        BY <2>2, <3>8, <5>3
                    <6>2. i < j
                        <7>1. CASE j <= i
                            <8>1. s[j].end <= s[i].end /\ s[j].end \in Int /\ s[i].end \in Int
                                BY <7>1, Apart
                            <8> QED BY <4>5, <6>1, <8>1 DEF On
                        <7> QED BY <1>1, <7>1
                    <6>3. i # Len(s) /\ i + 1 \in 1 .. Len(s) /\ i + 1 <= j
                        BY <1>1, <6>2
                    <6>4. b2 <= hole.limit /\ hole.carve = TRUE
                          /\ hole.limit = IF s[i+1].tag = UC THEN s[i+1].end + 1
                                          ELSE s[i+1].begin
                        BY <2>1, <3>1, <3>2, <5>1, <5>3, <6>3
                    <6>5. /\ s[i+1].begin \in Int /\ s[i+1].end \in Int
                          /\ s[j].begin \in Int /\ s[i+1].begin <= s[j].begin
                          /\ i + 1 # j => s[i+1].end < s[j].begin
                        BY <6>3, Apart
                    <6>6. s[j].begin <= p
                        BY <4>5 DEF On
                    <6>7. s[i+1].tag = UC
                        BY <3>2, <5>1, <6>4, <6>5, <6>6
                    <6>8. i + 1 = j
                        BY <3>2, <5>1, <6>4, <6>5, <6>6, <6>7
                    <6>9. PICK x \in Range(cut) : Covers(x, p)
                        BY <4>2, <5>1, <5>3
                    <6> QED BY <3>6, <3>7, <4>3, <6>4, <6>7, <6>8, <6>9
                <5>4. a2 \in Nat
                    BY <2>1
                <5> QED BY <5>2, <5>3, <5>4
            <4> QED BY <4>4, <4>5 DEF Fair
        <3> QED BY <3>7, <3>8
    <2> QED BY <2>5, <2>6
<1> QED BY <1>5, <1>6

\* The registers give page p the type t when def is the default.
Give(R, def, p, t) ==
    /\ t # def => \E r \in Range(R) : Covers(r, p) /\ r.type = t
    /\ \A r \in Range(R) : Covers(r, p) =>
          \/ r.type = t
          \/ t = UC /\ \E x \in Range(R) : Covers(x, p) /\ x.type = UC

\* All registers together give every page of the list its tag.
LEMMA VarRight ==
    ASSUME NEW s, List(s), Within(s, 0, Top), NEW def, NEW above \in BOOLEAN
    PROVE  /\ VarMtrrs(s, def, above) \in Seq(Reg)
           /\ \A p \in Nat : \A t : RANGE_1MB <= p /\ (above \/ p < RANGE_4GB) /\ Has(s, p, t) =>
                 Give(VarMtrrs(s, def, above), def, p, t)
<1> DEFINE n == Len(s)
           C(i) == calc_var_mtrrs_with_hole(s, i, above)
           D(i) == IF s[i].tag = def THEN <<>> ELSE C(i)
           q == [i \in 1 .. n |-> D(i)]
           R == FlattenSeq(q)
<1>1. n \in Nat /\ DOMAIN s = 1 .. n /\ \A x : x \in Range(s) <=> \E i \in 1 .. n : x = s[i]
    BY Members DEF List
<1>2. VarMtrrs(s, def, above) = R
    BY <1>1 DEF VarMtrrs
<1>3. \A i \in 1 .. n :
         /\ C(i) \in Seq(Reg)
         /\ \A p \in Nat : RANGE_1MB <= p /\ (above \/ p < RANGE_4GB) =>
               /\ Fair(C(i), s, p)
               /\ On(s[i], p) => \E r \in Range(C(i)) : Covers(r, p) /\ r.type = s[i].tag
    BY EntryRight
<1> HIDE DEF C
<1>4. \A i \in 1 .. n : D(i) \in Seq(Reg)
    BY <1>3, EmptySeq
<1>5. q \in Seq(Seq(Reg)) /\ Len(q) = n /\ \A i \in 1 .. n : q[i] = D(i)
    <2> HIDE DEF D, n
    <2>1. q \in [1 .. n -> Seq(Reg)]
        BY <1>4
    <2> QED BY <1>1, <2>1
<1> HIDE DEF q
<1>6. R \in Seq(Reg) /\ \A x : x \in Range(R) <=> \E i \in 1 .. n : x \in Range(D(i))
    BY <1>5, FlattenMembers
<1> HIDE DEF R, n
<1>7. \A i \in 1 .. n : \A x : x \in Range(D(i)) <=> s[i].tag # def /\ x \in Range(C(i))
    <2> TAKE i \in 1 .. n
    <2>1. CASE s[i].tag = def
        <3>1. D(i) = <<>> /\ Range(<<>>) = {}
            BY <2>1 DEF Range
        <3> HIDE DEF D
        <3> QED BY <2>1, <3>1
    <2>2. CASE s[i].tag # def
        <3>1. D(i) = C(i)
            BY <2>2
        <3> HIDE DEF D
        <3> QED BY <2>2, <3>1
    <2> QED BY <2>1, <2>2
<1> HIDE DEF D
<1>8. \A x : x \in Range(R) <=> \E i \in 1 .. n : s[i].tag # def /\ x \in Range(C(i))
    BY <1>6, <1>7
<1>9. ASSUME NEW p \in Nat, NEW t, RANGE_1MB <= p, above \/ p < RANGE_4GB, Has(s, p, t)
      PROVE  Give(R, def, p, t)
    <2>1. PICK j \in 1 .. n : On(s[j], p) /\ s[j].tag = t
        BY <1>1, <1>9 DEF Has
    <2>2. \A i \in 1 .. n : /\ Fair(C(i), s, p)
                            /\ On(s[i], p) =>
                                 \E r \in Range(C(i)) : Covers(r, p) /\ r.type = s[i].tag
        BY <1>3, <1>9
    <2>3. t # def => \E r \in Range(R) : Covers(r, p) /\ r.type = t
        BY <1>8, <2>1, <2>2
    <2>4. ASSUME NEW r \in Range(R), Covers(r, p)
          PROVE  \/ r.type = t
                 \/ t = UC /\ \E x \in Range(R) : Covers(x, p) /\ x.type = UC
        <3>1. PICK i \in 1 .. n : s[i].tag # def /\ r \in Range(C(i))
            BY <1>8
        <3>2. \/ r.type = t
              \/ t = UC /\ \E x \in Range(C(i)) : Covers(x, p) /\ x.type = UC
            BY <2>1, <2>2, <2>4, <3>1 DEF Fair, n
        <3> QED BY <1>8, <3>1, <3>2
    <2> QED BY <2>3, <2>4 DEF Give
<1> QED BY <1>2, <1>6, <1>9

\* What the CPU makes of such registers.
LEMMA EffectiveRight ==
    ASSUME NEW m, m.var \in Seq(Reg), NEW p \in Nat, RANGE_1MB <= p, NEW t,
           Give(m.var, m.default, p, t)
    PROVE  Effective(m, p) = t
<1> DEFINE R == m.var
           over == {i \in DOMAIN m.var : Covers(m.var[i], p)}
           types == {m.var[i].type : i \in over}
<1>1. DOMAIN R = 1 .. Len(R) /\ \A x : x \in Range(R) <=> \E i \in 1 .. Len(R) : x = R[i]
    BY Members
<1>2. \A y : y \in types <=> \E r \in Range(R) : Covers(r, p) /\ r.type = y
    BY <1>1
<1>3. ~(p < RANGE_1MB)
    BY Lines
<1>4. Effective(m, p) = CASE types = {} -> m.default
                          [] UC \in types -> UC
                          [] UC \notin types /\ Cardinality(types) = 1 ->
                                CHOOSE u \in types : TRUE
                          [] OTHER -> -1
    BY <1>3 DEF Effective
<1> HIDE DEF types
<1>5. CASE types = {}
    <2>1. m.default = t
        BY <1>2, <1>5 DEF Give
    <2>2. Cardinality(types) # 1
        BY <1>5, FS_EmptySet
    <2> QED BY <1>4, <1>5, <2>1
<1>6. CASE UC \in types
    <2>1. t = UC
        BY <1>2, <1>6 DEF Give
    <2> QED BY <1>4, <1>6, <2>1
<1>7. CASE types # {} /\ UC \notin types
    <2>1. \A y \in types : y = t
        BY <1>2, <1>7 DEF Give
    <2>2. types = {t}
        BY <1>7, <2>1
    <2>3. Cardinality(types) = 1
        BY <2>2, FS_Singleton
    <2>4. (CHOOSE u \in types : TRUE) = t
        BY <2>2
    <2> QED BY <1>4, <1>7, <2>3, <2>4
<1> QED BY <1>5, <1>6, <1>7

-----------------------------------------------------------------------------
(* Solutions.                                                              *)

\* What a page is given once write-combining is given up.
Plain(p) == IF Wanted(p) = WC THEN UC ELSE Wanted(p)

\* As SpaceRight, for a list without write-combining.
PlainRight(s) ==
    /\ List(s) /\ Merged(s) /\ Within(s, 0, Top) /\ Tagged(s, {UC, WC, WB})
    /\ \A p \in Int : \A t : Has(s, p, t) <=> p \in Described /\ t = Plain(p)

\* What the pages of the list get.
Solves(regs, def, s, above) ==
    /\ regs \in Seq(Reg)
    /\ \A p \in Nat : \A t : RANGE_1MB <= p /\ (above \/ p < RANGE_4GB) /\ Has(s, p, t) =>
          Give(regs, def, p, t)

\* A list that describes memory is not empty.
LEMMA NotEmpty ==
    ASSUME NEW s, SpaceRight(s) \/ PlainRight(s)
    PROVE  s # <<>>
<1>1. 0 \in Described /\ 0 \in Int
    BY Lines DEF Described, Page
<1>2. \E t : Has(s, 0, t)
    BY <1>1 DEF SpaceRight, PlainRight
<1> QED BY <1>2, NoEntries

\* Giving up write-combining.
LEMMA GivenUp ==
    ASSUME NEW s, SpaceRight(s)
    PROVE  PlainRight(memranges_update_tag(s, WC, UC))
<1> DEFINE m == memranges_update_tag(s, WC, UC)
<1>1. /\ List(m) /\ Merged(m)
      /\ \A p \in Int : \A t : Has(m, p, t) <=>
            (t # WC /\ Has(s, p, t)) \/ (t = UC /\ Has(s, p, WC))
      /\ \A a, c : Within(s, a, c) => Within(m, a, c)
      /\ \A T : Tagged(s, T) /\ UC \in T => Tagged(m, T)
    BY UpdateRight, Tags DEF SpaceRight
<1> HIDE DEF m
<1>2. Within(m, 0, Top) /\ Tagged(m, {UC, WC, WB})
    BY <1>1 DEF SpaceRight
<1>3. ASSUME NEW p \in Int, NEW t PROVE Has(m, p, t) <=> p \in Described /\ t = Plain(p)
    <2>1. Has(m, p, t) <=> (t # WC /\ Has(s, p, t)) \/ (t = UC /\ Has(s, p, WC))
        BY <1>1
    <2>2. \A u : Has(s, p, u) <=> p \in Described /\ u = Wanted(p)
        BY DEF SpaceRight
    <2> QED BY <2>1, <2>2, Tags DEF Plain
<1> QED BY <1>1, <1>2, <1>3 DEF PlainRight, m

\* calc_var_mtrrs leaves the list as it is or gives up write-combining.
LEMMA CalcRight ==
    ASSUME NEW s, NEW above, NEW total
    PROVE  LET calc == calc_var_mtrrs(s, above, total)
           IN  /\ calc.def \in {WB, UC}
               /\ calc.space = s \/ calc.space = memranges_update_tag(s, WC, UC)
BY DEF calc_var_mtrrs

\* prepare_var_mtrrs solves the list, unless registers are dropped.
LEMMA PrepareRight ==
    ASSUME NEW s, List(s), Within(s, 0, Top), NEW def, NEW above \in BOOLEAN, NEW total \in Nat
    PROVE  LET sol == prepare_var_mtrrs(s, def, above, total)
           IN  /\ sol.mtrr_default_type = def
               /\ sol.regs \in Seq(Reg) /\ Len(sol.regs) <= total
               /\ Fits(sol, total) => Solves(sol.regs, def, s, above)
<1> DEFINE all == VarMtrrs(s, def, above)
           sol == prepare_var_mtrrs(s, def, above, total)
<1>1. /\ all \in Seq(Reg)
      /\ \A p \in Nat : \A t : RANGE_1MB <= p /\ (above \/ p < RANGE_4GB) /\ Has(s, p, t) =>
            Give(all, def, p, t)
    BY VarRight
<1>2. sol = [mtrr_default_type |-> def, num_used |-> Len(all),
             regs |-> prep_var_mtrr(all, total)]
    BY DEF prepare_var_mtrrs
<1> HIDE DEF all, sol
<1>3. /\ sol.mtrr_default_type = def /\ sol.num_used = Len(all)
      /\ sol.regs = prep_var_mtrr(all, total)
    BY <1>2
<1>4. Len(all) \in Nat
    BY <1>1
<1>5. PICK k \in Nat : k = Min({Len(all), total}) /\ k <= Len(all) /\ k <= total
                       /\ (Len(all) <= total => k = Len(all))
    <2> DEFINE S == {Len(all), total}
               P(x) == \A y \in S : x <= y
    <2>1. \E x \in S : P(x)
        BY <1>4
    <2>2. Min(S) = CHOOSE x \in S : P(x)
        BY DEF Min
    <2>3. Min(S) \in S /\ P(Min(S))
        <3> HIDE DEF S, P
        <3> QED BY <2>1, <2>2
    <2> QED BY <1>4, <2>3
<1>6. sol.regs = SubSeq(all, 1, k)
    BY <1>3, <1>5 DEF prep_var_mtrr
<1>7. sol.regs \in Seq(Reg) /\ Len(sol.regs) = k /\ (k = Len(all) => sol.regs = all)
    <2>0. \A i \in 1 .. k : all[i] \in Reg
        <3>1. \A i \in 1 .. k : i \in 1 .. Len(all)
            BY <1>4, <1>5
        <3> QED BY <1>1, <3>1, Members
    <2>1. SubSeq(all, 1, k) \in Seq(Reg) /\ Len(SubSeq(all, 1, k)) = k
        <3>1. /\ SubSeq(all, 1, k) \in Seq(Reg)
              /\ Len(SubSeq(all, 1, k)) = IF 1 <= k THEN k - 1 + 1 ELSE 0
            BY <2>0, SubSeqProperties
        <3> QED BY <3>1
    <2>2. \A j \in 1 .. k : SubSeq(all, 1, k)[j] = all[j]
        BY <1>1, <1>4, <1>5, SubSeqProperties
    <2>3. k = Len(all) => SubSeq(all, 1, k) = all
        BY <1>1, <2>1, <2>2, SeqEqual
    <2> QED BY <1>6, <2>1, <2>3
<1>8. Fits(sol, total) => sol.regs = all
    BY <1>3, <1>5, <1>7 DEF Fits
<1>9. Fits(sol, total) => Solves(sol.regs, def, s, above)
    BY <1>1, <1>8 DEF Solves
<1> QED BY <1>3, <1>5, <1>7, <1>9 DEF sol

\* The tag mtrr_use_temp_range copies an entry with.
Tamed(tag) == IF tag = WC THEN UC ELSE tag

\* The loop of TempSpace as the provers see it.
CopyFn(s) ==
    CHOOSE f : f = [n \in 0 .. Len(s) |->
        IF n = 0 THEN <<>>
        ELSE memranges_insert(f[n-1], s[n].begin, range_entry_size(s[n]),
                              IF s[n].tag = WC THEN UC ELSE s[n].tag)]

\* The address space entry by entry, without WRCOMB.
LEMMA CopyRight ==
    ASSUME NEW s, List(s), Within(s, 0, Top)
    PROVE  /\ CopyFn(s)[Len(s)] \in Lists
           /\ \A p \in Int : \A t : Has(CopyFn(s)[Len(s)], p, t) <=>
                 \E u : Has(s, p, u) /\ t = Tamed(u)
<1> DEFINE n == Len(s)
           Ins(l, k) == memranges_insert(l, s[k].begin, range_entry_size(s[k]), Tamed(s[k].tag))
           G == [k \in 1 .. n |-> [l \in Lists |-> Ins(l, k)]]
           Eq(f) == f = [k \in 0 .. n |-> IF k = 0 THEN <<>> ELSE Ins(f[k-1], k)]
           h == CopyFn(s)
<1>0. n \in Nat /\ \A i \in 1 .. n : s[i] \in Ent /\ s[i] \in Range(s)
    BY Members DEF List
<1>1. ASSUME NEW k \in 1 .. n, NEW l \in Lists
      PROVE  /\ Ins(l, k) \in Lists
             /\ \A p \in Int : \A t : Has(Ins(l, k), p, t) <=>
                   IF On(s[k], p) THEN t = Tamed(s[k].tag) ELSE Has(l, p, t)
    <2>1. /\ s[k].begin \in Int /\ s[k].end \in Int /\ s[k].tag \in MtrrType
          /\ s[k].begin <= s[k].end + 1 /\ 0 <= s[k].begin /\ s[k].end < Top
        BY <1>0, EntForm DEF List, Sorted, Within
    <2>2. Tamed(s[k].tag) \in MtrrType
        BY <2>1, Tags DEF Tamed
    <2>3. PICK b \in Nat, z \in Nat : /\ b = s[k].begin /\ z = range_entry_size(s[k])
                                      /\ b + z = s[k].end + 1 /\ b + z <= Top
        BY <2>1, Lines DEF range_entry_size
    <2>4. Ins(l, k) = memranges_insert(l, b, z, Tamed(s[k].tag))
        BY <2>3
    <2> HIDE DEF Ins
    <2>5. /\ Ins(l, k) \in Lists
          /\ \A p \in Int : \A t : Has(Ins(l, k), p, t) <=>
                IF b <= p /\ p < b + z THEN t = Tamed(s[k].tag) ELSE Has(l, p, t)
        BY <2>2, <2>3, <2>4, Inserts
    <2>6. \A p \in Int : On(s[k], p) <=> b <= p /\ p < b + z
        BY <2>1, <2>3 DEF On
    <2> QED BY <2>5, <2>6
<1> HIDE DEF Ins
<1>2. <<>> \in Lists /\ \A p, t : ~Has(<<>>, p, t)
    <2>1. Len(<<>>) = 0 /\ <<>> \in Seq(Ent)
        OBVIOUS
    <2>2. Merged(<<>>)
        BY <2>1 DEF Merged
    <2>3. Within(<<>>, 0, Top)
        BY NoEntries DEF Within
    <2> QED BY <2>1, <2>2, <2>3, NoEntries DEF Lists
<1>3. G \in [1 .. n -> [Lists -> Lists]]
    BY <1>1
<1>4. PICK g \in [0 .. n -> Lists] : Grows(g, n, <<>>, G)
    <2> HIDE DEF G, n
    <2> QED BY <1>0, <1>2, <1>3, GrowsExists
<1>5. ASSUME NEW k \in 0 .. n PROVE g[k] = IF k = 0 THEN <<>> ELSE Ins(g[k-1], k)
    <2>1. g[k] = IF k = 0 THEN <<>> ELSE G[k][g[k-1]]
        <3> HIDE DEF G
        <3> QED BY <1>4 DEF Grows
    <2>2. k # 0 => k \in 1 .. n /\ k - 1 \in 0 .. n
        BY <1>0
    <2> QED BY <2>1, <2>2
<1>6. Eq(g)
    BY <1>4, <1>5
<1>7. Eq(h)
    BY <1>6, Zenon DEF CopyFn, Ins, Tamed
<1> HIDE DEF h
<1>8. \A k \in 0 .. n : h[k] = IF k = 0 THEN <<>> ELSE Ins(h[k-1], k)
    BY ONLY <1>7
<1> DEFINE T == {k \in 0 .. n : /\ h[k] \in Lists
                                /\ \A p \in Int : \A t : Has(h[k], p, t) <=>
                                     \E i \in 1 .. k : On(s[i], p) /\ t = Tamed(s[i].tag)}
<1>9. 0 \in T
    <2>1. h[0] = <<>> /\ 0 \in 0 .. n
        BY <1>0, <1>8
    <2>2. 1 .. 0 = {}
        OBVIOUS
    <2> QED BY <1>2, <2>1, <2>2
<1>10. ASSUME NEW k \in 0 .. n - 1, k \in T PROVE k + 1 \in T
    <2> DEFINE c == k + 1
    <2>1. c \in 0 .. n /\ c \in 1 .. n /\ c # 0 /\ c - 1 = k /\ k \in 0 .. n /\ k \in Nat
        BY <1>0
    <2>2. h[k] \in Lists /\ \A p \in Int : \A t : Has(h[k], p, t) <=>
                                \E i \in 1 .. k : On(s[i], p) /\ t = Tamed(s[i].tag)
        BY <1>10
    <2>3. \A i : i \in 1 .. c <=> i \in 1 .. k \/ i = c
        BY <2>1
    <2>4. \A i \in 1 .. k : i \in 1 .. n /\ i # c
        BY <1>0, <2>1
    <2> HIDE DEF c, T
    <2>5. h[c] = Ins(h[k], c)
        BY <1>8, <2>1
    <2>6. /\ Ins(h[k], c) \in Lists
          /\ \A p \in Int : \A t : Has(Ins(h[k], c), p, t) <=>
                IF On(s[c], p) THEN t = Tamed(s[c].tag) ELSE Has(h[k], p, t)
        BY <1>1, <2>1, <2>2
    <2>7. ASSUME NEW p \in Int, NEW t
          PROVE  Has(h[c], p, t) <=> \E i \in 1 .. c : On(s[i], p) /\ t = Tamed(s[i].tag)
        <3>1. Has(h[c], p, t) <=> IF On(s[c], p) THEN t = Tamed(s[c].tag) ELSE Has(h[k], p, t)
            BY <2>5, <2>6
        <3>2. Has(h[k], p, t) <=> \E i \in 1 .. k : On(s[i], p) /\ t = Tamed(s[i].tag)
            BY <2>2
        <3>3. On(s[c], p) => \A i \in 1 .. k : ~On(s[i], p)
            BY <2>1, <2>4, OnlyOne
        <3> QED BY <2>3, <3>1, <3>2, <3>3
    <2>8. h[c] \in Lists
        BY <2>5, <2>6
    <2>9. c \in T
        BY <2>1, <2>7, <2>8 DEF T
    <2> QED BY <2>9 DEF c
<1>11. n \in T
    <2> HIDE DEF T, n
    <2>1. \A i \in 0 .. n : i \in T
        BY <1>0, <1>9, <1>10, Climb
    <2>2. n \in 0 .. n
        BY <1>0
    <2> QED BY <2>1, <2>2
<1>12. /\ h[n] \in Lists
       /\ \A p \in Int : \A t : Has(h[n], p, t) <=>
             \E i \in 1 .. n : On(s[i], p) /\ t = Tamed(s[i].tag)
    BY <1>11
<1> HIDE DEF T
<1>13. \A p, t : (\E u : Has(s, p, u) /\ t = Tamed(u)) <=>
             \E i \in 1 .. n : On(s[i], p) /\ t = Tamed(s[i].tag)
    BY Members DEF List, Has
<1> QED BY <1>12, <1>13 DEF h

\* The address space with the ROM in it.
LEMMA TempRight ==
    ASSUME SpaceRight(addr_space) \/ PlainRight(addr_space), NEW size \in RomSizes
    PROVE  /\ TempSpace(size) \in Lists
           /\ \A p \in Int : \A t : Has(TempSpace(size), p, t) <=>
                 IF RANGE_4GB - size <= p /\ p < RANGE_4GB THEN t = WP
                 ELSE p \in Described /\ t = Plain(p)
<1> DEFINE s == addr_space
           c == CopyFn(s)[Len(s)]
<1>1. TempSpace(size) = memranges_insert(c, RANGE_4GB - size, size, WP)
    BY DEF TempSpace, CopyFn
<1>2. /\ c \in Lists
      /\ \A p \in Int : \A t : Has(c, p, t) <=> \E u : Has(s, p, u) /\ t = Tamed(u)
    BY CopyRight DEF SpaceRight, PlainRight
<1> HIDE DEF c
<1>3. /\ size \in Nat /\ RANGE_4GB - size \in Nat /\ (RANGE_4GB - size) + size = RANGE_4GB
      /\ RANGE_4GB <= Top
    BY MtrrAssumption, Lines
<1>4. /\ TempSpace(size) \in Lists
      /\ \A p \in Int : \A t : Has(TempSpace(size), p, t) <=>
            IF RANGE_4GB - size <= p /\ p < (RANGE_4GB - size) + size THEN t = WP
            ELSE Has(c, p, t)
    <2>1. PICK b, m : /\ b \in Nat /\ b = RANGE_4GB - size
                      /\ m = memranges_insert(c, b, size, WP)
        BY <1>3
    <2>2. size \in Nat /\ b + size <= Top /\ WP \in MtrrType /\ c \in Lists
        BY <1>2, <1>3, <2>1, Tags
    <2>3. /\ m \in Lists
          /\ \A p \in Int : \A t : Has(m, p, t) <=>
                IF b <= p /\ p < b + size THEN t = WP ELSE Has(c, p, t)
        BY ONLY <2>1, <2>2, Inserts
    <2> QED BY <1>1, <2>1, <2>3
<1>5. ASSUME NEW p \in Int, NEW t PROVE Has(c, p, t) <=> p \in Described /\ t = Plain(p)
    <2>1. CASE SpaceRight(s)
        <3>1. \A u : Has(s, p, u) <=> p \in Described /\ u = Wanted(p)
            BY <2>1 DEF SpaceRight
        <3> QED BY <1>2, <3>1 DEF Plain, Tamed
    <2>2. CASE PlainRight(s)
        <3>1. \A u : Has(s, p, u) <=> p \in Described /\ u = Plain(p)
            BY <2>2 DEF PlainRight
        <3>2. Tamed(Plain(p)) = Plain(p)
            BY Tags DEF Tamed, Plain
        <3> QED BY <1>2, <3>1, <3>2
    <2> QED BY <2>1, <2>2
<1> QED BY <1>3, <1>4, <1>5

\* The fixed types are those that are wanted.
LEMMA FixedRight ==
    ASSUME NEW s, SpaceRight(s), NEW p \in 0 .. RANGE_1MB - 1
    PROVE  calc_fixed_mtrrs(s)[p] = Wanted(p)
<1> DEFINE over == {i \in DOMAIN s : p \in s[i].begin .. s[i].end}
<1>1. /\ DOMAIN s = 1 .. Len(s) /\ \A i \in 1 .. Len(s) : s[i] \in Ent
      /\ \A x : x \in Range(s) <=> \E i \in 1 .. Len(s) : x = s[i]
    BY Members DEF SpaceRight, List
<1>2. p \in Int /\ p \in Described
    BY Lines DEF Described, Page
<1>3. \A i \in 1 .. Len(s) : i \in over <=> On(s[i], p)
    BY <1>1, <1>2, EntForm DEF On
<1>4. \A t : Has(s, p, t) <=> t = Wanted(p)
    BY <1>2 DEF SpaceRight
<1>5. over # {} /\ \A i \in over : s[i].tag = Wanted(p)
    <2>1. Has(s, p, Wanted(p))
        BY <1>4
    <2>2. over # {}
        BY <1>1, <1>3, <2>1 DEF Has
    <2>3. ASSUME NEW i \in over PROVE s[i].tag = Wanted(p)
        <3>1. i \in 1 .. Len(s) /\ On(s[i], p) /\ s[i] \in Range(s)
            BY <1>1, <1>3
        <3>2. Has(s, p, s[i].tag)
            BY <3>1 DEF Has
        <3> QED BY <1>4, <3>2
    <2> QED BY <2>2, <2>3
<1>6. calc_fixed_mtrrs(s)[p] = IF over = {} THEN UC ELSE s[CHOOSE i \in over : TRUE].tag
    BY DEF calc_fixed_mtrrs
<1> HIDE DEF over
<1>7. (CHOOSE i \in over : TRUE) \in over
    BY <1>5
<1> QED BY <1>5, <1>6, <1>7

\* With the ROM of this size mapped below 4 GiB.
WithRom(p, size) ==
    IF RANGE_4GB - size <= p /\ p < RANGE_4GB THEN WP ELSE Plain(p)

\* A solution, and what it solves when it fits.
FitsFor(sol, total, s, above) ==
    /\ sol.regs \in Seq(Reg) /\ Len(sol.regs) <= total
    /\ Fits(sol, total) => Solves(sol.regs, sol.mtrr_default_type, s, above)

\* What the first caller prepares.
LEMMA FirstSolution ==
    ASSUME NEW s, SpaceRight(s), NEW above \in BOOLEAN, NEW total \in Nat
    PROVE  LET calc == calc_var_mtrrs(s, above, total)
           IN  /\ SpaceRight(calc.space) \/ PlainRight(calc.space)
               /\ FitsFor(prepare_var_mtrrs(calc.space, calc.def, above, total),
                          total, calc.space, above)
<1> DEFINE calc == calc_var_mtrrs(s, above, total)
           sol == prepare_var_mtrrs(calc.space, calc.def, above, total)
<1>1. calc.space = s \/ calc.space = memranges_update_tag(s, WC, UC)
    BY CalcRight
<1>2. PICK sp, def : sp = calc.space /\ def = calc.def
    OBVIOUS
<1>3. SpaceRight(sp) \/ PlainRight(sp)
    BY <1>1, <1>2, GivenUp
<1>4. List(sp) /\ Within(sp, 0, Top)
    BY <1>3 DEF SpaceRight, PlainRight
<1>5. sol = prepare_var_mtrrs(sp, def, above, total)
    BY <1>2
<1> HIDE DEF sol, calc
<1>6. /\ sol.mtrr_default_type = def
      /\ sol.regs \in Seq(Reg) /\ Len(sol.regs) <= total
      /\ Fits(sol, total) => Solves(sol.regs, def, sp, above)
    BY <1>4, <1>5, PrepareRight
<1>7. FitsFor(sol, total, sp, above)
    BY <1>6 DEF FitsFor
<1> QED BY <1>2, <1>3, <1>7 DEF sol, calc

\* What is prepared for the temporary range.
LEMMA TempSolution ==
    ASSUME SpaceRight(addr_space) \/ PlainRight(addr_space), NEW size \in RomSizes,
           NEW total \in Nat
    PROVE  LET calc == calc_var_mtrrs(TempSpace(size), TRUE, total)
               sol == prepare_var_mtrrs(calc.space, calc.def, TRUE, total)
           IN  /\ sol.regs \in Seq(Reg) /\ Len(sol.regs) <= total
               /\ Fits(sol, total) =>
                    \A p \in Described : RANGE_1MB <= p =>
                        Give(sol.regs, sol.mtrr_default_type, p, WithRom(p, size))
<1> DEFINE calc == calc_var_mtrrs(TempSpace(size), TRUE, total)
           sol == prepare_var_mtrrs(calc.space, calc.def, TRUE, total)
           s == TempSpace(size)
<1>1. calc.space = s \/ calc.space = memranges_update_tag(s, WC, UC)
    BY CalcRight
<1>2. PICK sp, def : sp = calc.space /\ def = calc.def
    OBVIOUS
<1>3. sol = prepare_var_mtrrs(sp, def, TRUE, total)
    BY <1>2
<1> HIDE DEF sol, calc
<1>4. /\ List(s) /\ Within(s, 0, Top)
      /\ \A p \in Int : \A t : Has(s, p, t) <=>
            IF RANGE_4GB - size <= p /\ p < RANGE_4GB THEN t = WP
            ELSE p \in Described /\ t = Plain(p)
    BY TempRight DEF Lists
<1> HIDE DEF s
<1>5. \A p \in Described : p \in Nat
    BY Lines DEF Described, Page
<1>6. \A p \in Described : Has(s, p, WithRom(p, size)) /\ WithRom(p, size) # WC
    BY <1>4, <1>5, Tags DEF WithRom, Plain
<1>7. List(sp) /\ Within(sp, 0, Top) /\ \A p \in Described : Has(sp, p, WithRom(p, size))
    <2>1. CASE sp = s
        BY <1>4, <1>6, <2>1
    <2>2. CASE sp = memranges_update_tag(s, WC, UC)
        <3>1. /\ List(sp)
              /\ \A p \in Int : \A t : Has(sp, p, t) <=>
                    (t # WC /\ Has(s, p, t)) \/ (t = UC /\ Has(s, p, WC))
              /\ \A a, c : Within(s, a, c) => Within(sp, a, c)
            BY <1>4, <2>2, UpdateRight, Tags
        <3> QED BY <1>4, <1>5, <1>6, <3>1
    <2> QED BY <1>1, <1>2, <2>1, <2>2
<1>8. /\ sol.mtrr_default_type = def
      /\ sol.regs \in Seq(Reg) /\ Len(sol.regs) <= total
      /\ Fits(sol, total) => Solves(sol.regs, def, sp, TRUE)
    BY <1>3, <1>7, PrepareRight
<1>9. ASSUME Fits(sol, total), NEW p \in Described, RANGE_1MB <= p
      PROVE  Give(sol.regs, sol.mtrr_default_type, p, WithRom(p, size))
    BY <1>5, <1>7, <1>8, <1>9 DEF Solves
<1> QED BY <1>8, <1>9 DEF sol, calc

-----------------------------------------------------------------------------
(* The inductive invariant for the types of pages.                         *)

\* What the program finds and never changes.
Hardware == Resources /\ capability \in Capabilities /\ above4gb \in BOOLEAN

\* The address space, the fixed types and the solution of the first caller.
Prepared ==
    /\ solved => /\ SpaceRight(addr_space) \/ PlainRight(addr_space)
                 /\ \A p \in 0 .. RANGE_1MB - 1 : fixed_mtrr_types[p] = Wanted(p)
                 /\ FitsFor(mtrr_global_solution, total_mtrrs, addr_space, above4gb)
    /\ ~solved => /\ addr_space = <<>> /\ fixed_mtrr_types = <<>>
                  /\ mtrr_global_solution = NoSolution

\* What the CPUs hold.
Held ==
    /\ {solved, put_back_original_solution, handed} \subseteq BOOLEAN
    /\ \A c \in Cpus :
          /\ msrs[c].var \in Seq(Reg) /\ Len(msrs[c].var) <= NUM_MTRR_STATIC_STORAGE
          /\ loaded[c] = "permanent" => Fits(mtrr_global_solution, total_mtrrs)
    /\ loaded[Bsp] = "temporary" =>
          \A p \in Described : RANGE_1MB <= p =>
              Give(msrs[Bsp].var, msrs[Bsp].default, p, WithRom(p, temp))

TypesInv == Inv /\ Hardware /\ Prepared /\ Held

\* The number of registers.
LEMMA Detected ==
    ASSUME Hardware
    PROVE  detect_var_mtrrs \in Nat /\ detect_var_mtrrs <= NUM_MTRR_STATIC_STORAGE
<1> DEFINE S == {capability, NUM_MTRR_STATIC_STORAGE}
           P(x) == \A y \in S : x <= y
<1>0. capability \in Nat /\ NUM_MTRR_STATIC_STORAGE \in Nat
    BY MtrrAssumption DEF Hardware
<1>1. \E x \in S : P(x)
    BY <1>0
<1>2. Min(S) = CHOOSE x \in S : P(x)
    BY DEF Min
<1>3. Min(S) \in S /\ P(Min(S))
    <2> HIDE DEF S, P
    <2> QED BY <1>1, <1>2
<1> QED BY <1>0, <1>3 DEF detect_var_mtrrs

\* The hardware does not change.
LEMMA Unmoved ==
    ASSUME UNCHANGED hardware, Hardware
    PROVE  /\ Hardware' /\ Described' = Described /\ above4gb' = above4gb
           /\ \A p : Wanted(p)' = Wanted(p) /\ Plain(p)' = Plain(p)
           /\ \A p, size : WithRom(p, size)' = WithRom(p, size)
           /\ \A s : SpaceRight(s)' <=> SpaceRight(s)
           /\ \A s : PlainRight(s)' <=> PlainRight(s)
<1>1. resources' = resources /\ capability' = capability /\ above4gb' = above4gb
    BY DEF hardware
<1>2. \A p, t : In(p, t)' <=> In(p, t)
    BY <1>1 DEF In
<1>3. Described' = Described
    BY <1>2 DEF Described
<1>4. \A p : Wanted(p)' = Wanted(p)
    BY <1>2 DEF Wanted
<1>5. \A p : Plain(p)' = Plain(p)
    BY <1>4 DEF Plain
<1>6. \A p, size : WithRom(p, size)' = WithRom(p, size)
    BY <1>5 DEF WithRom
<1>7. \A s : SpaceRight(s)' <=> SpaceRight(s)
    BY <1>3, <1>4 DEF SpaceRight
<1>8. \A s : PlainRight(s)' <=> PlainRight(s)
    BY <1>3, <1>5 DEF PlainRight
<1>9. Collected' = Collected
    BY <1>1 DEF Collected
<1>10. Hardware'
    BY <1>1, <1>9 DEF Hardware, Resources
<1> QED BY <1>1, <1>3, <1>4, <1>5, <1>6, <1>7, <1>8, <1>10

\* The invariant holds when the device tree is read.
LEMMA TypesInit ==
    ASSUME Init
    PROVE  TypesInv
<1>1. Inv
    BY StartInv
<1>2. PICK dram \in {r \in Resource : r.base = 0 /\ r.type = WB},
            others \in [1 .. MaxResources - 1 -> Resource] :
              resources = {dram} \cup Range(others)
    BY DEF Init
<1>3. Range(others) \subseteq Resource /\ IsFiniteSet(Range(others))
    <2> DEFINE D == 1 .. MaxResources - 1
    <2>1. Range(others) = {others[x] : x \in D}
        BY DEF Range
    <2>2. IsFiniteSet(D)
        BY FS_Interval, MtrrAssumption
    <2>3. others \in Surjection(D, Range(others))
        <3>1. others \in [D -> Range(others)]
            BY <2>1
        <3>2. \A t \in Range(others) : \E x \in D : others[x] = t
            BY <2>1
        <3> QED BY <3>1, <3>2 DEF Surjection
    <2>4. IsFiniteSet(Range(others))
        BY <2>2, <2>3, FS_Surjection
    <2> QED BY <2>1, <2>4
<1>4. resources \in SUBSET Resource /\ dram \in resources /\ dram.base = 0 /\ dram.type = WB
    BY <1>2, <1>3
<1>5. IsFiniteSet(resources)
    <2>1. IsFiniteSet({dram})
        BY FS_Singleton
    <2> QED BY <1>2, <1>3, <2>1, FS_Union
<1>6. Hardware
    BY <1>4, <1>5 DEF Init, Hardware, Resources
<1>7. Prepared
    BY DEF Init, Prepared
<1>8. Held
    <2>1. <<>> \in Seq(Reg) /\ Len(<<>>) = 0
        OBVIOUS
    <2>2. \A c \in Cpus : msrs[c].var = <<>> /\ loaded[c] = "reset"
        BY DEF Init
    <2>3. Bsp \in Cpus /\ NUM_MTRR_STATIC_STORAGE \in Nat
        BY MtrrAssumption
    <2>4. {solved, put_back_original_solution, handed} \subseteq BOOLEAN
        BY DEF Init
    <2>5. 0 <= NUM_MTRR_STATIC_STORAGE
        BY <2>3
    <2>6. \A c \in Cpus :
             /\ msrs[c].var \in Seq(Reg) /\ Len(msrs[c].var) <= NUM_MTRR_STATIC_STORAGE
             /\ loaded[c] = "permanent" => Fits(mtrr_global_solution, total_mtrrs)
        BY <2>1, <2>2, <2>5
    <2>7. loaded[Bsp] # "temporary"
        BY <2>2, <2>3
    <2> QED BY <2>4, <2>6, <2>7 DEF Held
<1> QED BY <1>1, <1>6, <1>7, <1>8 DEF TypesInv

\* Any CPU sets up its registers.
LEMMA SetupTypes ==
    ASSUME TypesInv, NEW c \in Cpus, x86_setup_mtrrs_with_detect(c)
    PROVE  TypesInv'
<1> DEFINE space == get_physical_address_space
           total == detect_var_mtrrs
           calc == calc_var_mtrrs(space, above4gb, total)
           fixed == IF fixed_mtrr_types # <<>> THEN fixed_mtrr_types
                    ELSE calc_fixed_mtrrs(space)
           sol == IF solved THEN mtrr_global_solution
                  ELSE prepare_var_mtrrs(calc.space, calc.def, above4gb, total)
           list == IF solved THEN space ELSE calc.space
<1>1. /\ total_mtrrs' = total /\ addr_space' = list
      /\ fixed_mtrr_types' = fixed /\ mtrr_global_solution' = sol /\ solved' = TRUE
      /\ msrs' = [msrs EXCEPT ![c] = commit_var_mtrrs(
                     commit_fixed_mtrrs(msrs[c], fixed), sol, total)]
      /\ loaded' = [loaded EXCEPT ![c] =
                      IF Fits(sol, total) THEN "permanent" ELSE loaded[c]]
      /\ UNCHANGED <<put_back_original_solution, temp, handed>>
      /\ UNCHANGED hardware
    BY DEF x86_setup_mtrrs_with_detect
<1>2. Inv'
    BY SetupStep DEF TypesInv
<1>3. /\ Hardware' /\ Described' = Described /\ above4gb' = above4gb
      /\ \A p : Wanted(p)' = Wanted(p)
      /\ \A p, size : WithRom(p, size)' = WithRom(p, size)
      /\ \A s : SpaceRight(s)' <=> SpaceRight(s)
      /\ \A s : PlainRight(s)' <=> PlainRight(s)
    BY <1>1, Unmoved DEF TypesInv
<1>4. total \in Nat /\ total <= NUM_MTRR_STATIC_STORAGE /\ above4gb \in BOOLEAN
    BY Detected DEF TypesInv, Hardware
<1>5. /\ SpaceRight(list) \/ PlainRight(list)
      /\ \A p \in 0 .. RANGE_1MB - 1 : fixed[p] = Wanted(p)
      /\ FitsFor(sol, total, list, above4gb)
      /\ solved => sol = mtrr_global_solution /\ total = total_mtrrs
    <2>1. CASE solved
        <3>1. /\ SpaceRight(addr_space) \/ PlainRight(addr_space)
              /\ \A p \in 0 .. RANGE_1MB - 1 : fixed_mtrr_types[p] = Wanted(p)
              /\ FitsFor(mtrr_global_solution, total_mtrrs, addr_space, above4gb)
            BY <2>1 DEF TypesInv, Prepared
        <3>2. total_mtrrs = total /\ fixed_mtrr_types # <<>>
            BY <2>1 DEF TypesInv, Inv, Solved
        <3>3. list = addr_space /\ fixed = fixed_mtrr_types /\ sol = mtrr_global_solution
            BY <2>1, <3>1, <3>2, NotEmpty DEF get_physical_address_space
        <3> HIDE DEF list, fixed, sol, total
        <3> QED BY <3>1, <3>2, <3>3
    <2>2. CASE ~solved
        <3>1. addr_space = <<>> /\ fixed_mtrr_types = <<>>
            BY <2>2 DEF TypesInv, Prepared
        <3>2. SpaceRight(space)
            BY <3>1, FirstSpace DEF TypesInv, Hardware, get_physical_address_space
        <3>3. fixed = calc_fixed_mtrrs(space) /\ list = calc.space
              /\ sol = prepare_var_mtrrs(calc.space, calc.def, above4gb, total)
            BY <2>2, <3>1
        <3> HIDE DEF list, fixed, sol, total, space
        <3>4. /\ SpaceRight(calc.space) \/ PlainRight(calc.space)
              /\ FitsFor(prepare_var_mtrrs(calc.space, calc.def, above4gb, total),
                         total, calc.space, above4gb)
            BY <1>4, <3>2, FirstSolution
        <3>5. \A p \in 0 .. RANGE_1MB - 1 : calc_fixed_mtrrs(space)[p] = Wanted(p)
            BY <3>2, FixedRight
        <3> HIDE DEF calc
        <3> QED BY <2>2, <3>3, <3>4, <3>5
    <2> QED BY <2>1, <2>2
<1>6. PICK L, F, S, N : L = list /\ F = fixed /\ S = sol /\ N = total
    OBVIOUS
<1> HIDE DEF list, fixed, sol, total, space, calc
<1>7. Prepared'
    <2>1. SpaceRight(addr_space)' \/ PlainRight(addr_space)'
        <3>1. addr_space' = L /\ (SpaceRight(L) \/ PlainRight(L))
            BY <1>1, <1>5, <1>6
        <3>2. SpaceRight(L)' \/ PlainRight(L)'
            BY <1>3, <3>1
        <3> QED BY <3>1, <3>2 DEF SpaceRight, PlainRight
    <2>2. \A p \in 0 .. RANGE_1MB - 1 : fixed_mtrr_types'[p] = Wanted(p)'
        BY <1>1, <1>3, <1>5
    <2>3. FitsFor(mtrr_global_solution', total_mtrrs', addr_space', above4gb')
        BY <1>1, <1>3, <1>5
    <2> QED BY <1>1, <2>1, <2>2, <2>3 DEF Prepared
<1>8. PICK m : /\ m = Regs(fixed, msrs[c].var, msrs[c].default) /\ IsRegs(m)
               /\ m.var = msrs[c].var /\ m.default = msrs[c].default
               /\ m.fixed = fixed /\ commit_fixed_mtrrs(msrs[c], fixed) = m
    BY FixedEffect, RegsFields DEF TypesInv, Inv, Loaded
<1>9. /\ DOMAIN msrs = Cpus /\ DOMAIN loaded = Cpus
    BY DEF TypesInv, Inv, Loaded
<1>10. /\ Fits(sol, total) => /\ msrs'[c].var = sol.regs /\ loaded'[c] = "permanent"
       /\ ~Fits(sol, total) => /\ msrs'[c].var = msrs[c].var
                               /\ msrs'[c].default = msrs[c].default
                               /\ loaded'[c] = loaded[c]
       /\ \A d \in Cpus : d # c => msrs'[d] = msrs[d] /\ loaded'[d] = loaded[d]
    <2>1. msrs'[c] = IF Fits(sol, total)
                     THEN Regs(fixed, sol.regs, sol.mtrr_default_type) ELSE m
        BY <1>1, <1>8, <1>9, VarEffect
    <2>2. loaded'[c] = IF Fits(sol, total) THEN "permanent" ELSE loaded[c]
        BY <1>1, <1>9
    <2>3. \A d \in Cpus : d # c => msrs'[d] = msrs[d] /\ loaded'[d] = loaded[d]
        BY <1>1, <1>9
    <2> QED BY <1>8, <2>1, <2>2, <2>3, RegsFields
<1>11. Held'
    <2>1. {solved', put_back_original_solution', handed'} \subseteq BOOLEAN
        BY <1>1 DEF TypesInv, Held
    <2>2. ASSUME NEW d \in Cpus
          PROVE  /\ msrs'[d].var \in Seq(Reg)
                 /\ Len(msrs'[d].var) <= NUM_MTRR_STATIC_STORAGE
        <3>1. /\ msrs[d].var \in Seq(Reg) /\ Len(msrs[d].var) <= NUM_MTRR_STATIC_STORAGE
            BY DEF TypesInv, Held
        <3>2. /\ sol.regs \in Seq(Reg) /\ Len(sol.regs) <= NUM_MTRR_STATIC_STORAGE
            <4>1. /\ sol.regs \in Seq(Reg) /\ Len(sol.regs) <= total
                BY <1>5 DEF FitsFor
            <4>2. Len(sol.regs) \in Nat /\ NUM_MTRR_STATIC_STORAGE \in Nat
                BY <4>1, MtrrAssumption
            <4> QED BY <1>4, <4>1, <4>2
        <3>3. CASE d = c
            BY <1>10, <3>1, <3>2, <3>3
        <3>4. CASE d # c
            BY <1>10, <3>1, <3>4
        <3> QED BY <3>3, <3>4
    <2>3. ASSUME NEW d \in Cpus, loaded'[d] = "permanent"
          PROVE  Fits(mtrr_global_solution', total_mtrrs')
        <3> SUFFICES Fits(sol, total)
            BY <1>1
        <3>1. loaded[d] = "permanent" => Fits(sol, total)
            <4>1. loaded[d] = "permanent" =>
                     solved /\ Fits(mtrr_global_solution, total_mtrrs)
                BY DEF TypesInv, Held, Inv, Solved
            <4> QED BY <1>5, <4>1
        <3> QED BY <1>10, <2>3, <3>1
    <2>4. ASSUME loaded'[Bsp] = "temporary", NEW p \in Described', RANGE_1MB <= p
          PROVE  Give(msrs'[Bsp].var, msrs'[Bsp].default, p, WithRom(p, temp)')
        <3>0. Bsp \in Cpus
            BY MtrrAssumption
        <3>1. /\ loaded[Bsp] = "temporary" /\ msrs'[Bsp].var = msrs[Bsp].var
              /\ msrs'[Bsp].default = msrs[Bsp].default
            BY <1>10, <2>4, <3>0
        <3>2. p \in Described
            BY <1>3
        <3>3. Give(msrs[Bsp].var, msrs[Bsp].default, p, WithRom(p, temp))
            BY <2>4, <3>1, <3>2 DEF TypesInv, Held
        <3>4. WithRom(p, temp)' = WithRom(p, temp)
            <4>1. PICK z : z = temp /\ z = temp'
                BY <1>1
            <4>2. WithRom(p, z)' = WithRom(p, z)
                BY <1>3
            <4> QED BY <4>1, <4>2 DEF WithRom
        <3> QED BY <3>1, <3>3, <3>4
    <2> QED BY <2>1, <2>2, <2>3, <2>4 DEF Held
<1> QED BY <1>2, <1>3, <1>7, <1>11 DEF TypesInv

\* What was prepared stays.
LEMMA PreparedStays ==
    ASSUME Hardware, Prepared, UNCHANGED hardware,
           UNCHANGED <<total_mtrrs, addr_space, fixed_mtrr_types,
                       mtrr_global_solution, solved>>
    PROVE  Hardware' /\ Prepared'
<1>1. /\ Hardware' /\ Described' = Described /\ above4gb' = above4gb
      /\ \A p : Wanted(p)' = Wanted(p)
      /\ \A s : SpaceRight(s)' <=> SpaceRight(s)
      /\ \A s : PlainRight(s)' <=> PlainRight(s)
    BY Unmoved
<1>2. CASE solved
    <2>1. /\ SpaceRight(addr_space) \/ PlainRight(addr_space)
          /\ \A p \in 0 .. RANGE_1MB - 1 : fixed_mtrr_types[p] = Wanted(p)
          /\ FitsFor(mtrr_global_solution, total_mtrrs, addr_space, above4gb)
        BY <1>2 DEF Prepared
    <2>2. PICK L : L = addr_space /\ L = addr_space'
        OBVIOUS
    <2>3. SpaceRight(L)' \/ PlainRight(L)'
        BY <1>1, <2>1, <2>2
    <2>4. SpaceRight(addr_space)' \/ PlainRight(addr_space)'
        BY <2>2, <2>3 DEF SpaceRight, PlainRight
    <2>5. \A p \in 0 .. RANGE_1MB - 1 : fixed_mtrr_types'[p] = Wanted(p)'
        BY <1>1, <2>1
    <2>6. FitsFor(mtrr_global_solution', total_mtrrs', addr_space', above4gb')
        BY <1>1, <2>1
    <2> QED BY <1>1, <1>2, <2>4, <2>5, <2>6 DEF Prepared
<1>3. CASE ~solved
    <2>1. addr_space = <<>> /\ fixed_mtrr_types = <<>> /\ mtrr_global_solution = NoSolution
        BY <1>3 DEF Prepared
    <2> QED BY <1>1, <1>3, <2>1 DEF Prepared, NoSolution
<1> QED BY <1>2, <1>3

\* The temporary range is set up.
LEMMA TempTypes ==
    ASSUME TypesInv, NEW size \in RomSizes, mtrr_use_temp_range(size)
    PROVE  TypesInv'
<1> DEFINE calc == calc_var_mtrrs(TempSpace(size), TRUE, total_mtrrs)
           sol == prepare_var_mtrrs(calc.space, calc.def, TRUE, total_mtrrs)
<1>1. /\ solved
      /\ UNCHANGED hardware
      /\ UNCHANGED <<total_mtrrs, addr_space, fixed_mtrr_types,
                     mtrr_global_solution, solved, handed>>
      /\ msrs' = [msrs EXCEPT ![Bsp] = commit_var_mtrrs(@, sol, total_mtrrs)]
      /\ IF Fits(sol, total_mtrrs)
         THEN /\ put_back_original_solution' = TRUE
              /\ loaded' = [loaded EXCEPT ![Bsp] = "temporary"]
              /\ temp' = size
         ELSE UNCHANGED <<put_back_original_solution, loaded, temp>>
    BY DEF mtrr_use_temp_range
<1>2. Inv'
    BY TempStep DEF TypesInv
<1>3. Hardware' /\ Prepared'
    BY <1>1, PreparedStays DEF TypesInv
<1>4. /\ Described' = Described
      /\ \A p, z : WithRom(p, z)' = WithRom(p, z)
    BY <1>1, Unmoved DEF TypesInv
<1>5. total_mtrrs \in Nat /\ total_mtrrs <= NUM_MTRR_STATIC_STORAGE
    BY <1>1, Detected DEF TypesInv, Inv, Solved
<1>6. /\ sol.regs \in Seq(Reg) /\ Len(sol.regs) <= total_mtrrs
      /\ Fits(sol, total_mtrrs) =>
           \A p \in Described : RANGE_1MB <= p =>
               Give(sol.regs, sol.mtrr_default_type, p, WithRom(p, size))
    BY <1>1, <1>5, TempSolution DEF TypesInv, Prepared
<1> HIDE DEF sol, calc
<1>7. Len(sol.regs) <= NUM_MTRR_STATIC_STORAGE
    <2>1. Len(sol.regs) \in Nat /\ NUM_MTRR_STATIC_STORAGE \in Nat
        BY <1>6, MtrrAssumption
    <2> QED BY <1>5, <1>6, <2>1
<1>8. /\ \A d \in Cpus : d # Bsp => msrs'[d] = msrs[d]
      /\ msrs'[Bsp] = IF Fits(sol, total_mtrrs)
                      THEN Regs(fixed_mtrr_types, sol.regs, sol.mtrr_default_type)
                      ELSE msrs[Bsp]
    BY <1>1, BspStep DEF TypesInv, hardware
<1>9. Bsp \in Cpus /\ DOMAIN loaded = Cpus
    BY MtrrAssumption DEF TypesInv, Inv, Loaded
<1>10. /\ Fits(sol, total_mtrrs) =>
             /\ msrs'[Bsp].var = sol.regs
             /\ msrs'[Bsp].default = sol.mtrr_default_type
             /\ loaded'[Bsp] = "temporary" /\ temp' = size
       /\ ~Fits(sol, total_mtrrs) =>
             msrs'[Bsp] = msrs[Bsp] /\ loaded'[Bsp] = loaded[Bsp] /\ temp' = temp
       /\ \A d \in Cpus : d # Bsp => loaded'[d] = loaded[d]
    BY <1>1, <1>8, <1>9, RegsFields
<1>11. Held'
    <2>1. {solved', put_back_original_solution', handed'} \subseteq BOOLEAN
        BY <1>1 DEF TypesInv, Held
    <2>2. ASSUME NEW d \in Cpus
          PROVE  /\ msrs'[d].var \in Seq(Reg)
                 /\ Len(msrs'[d].var) <= NUM_MTRR_STATIC_STORAGE
        <3>1. /\ msrs[d].var \in Seq(Reg) /\ Len(msrs[d].var) <= NUM_MTRR_STATIC_STORAGE
            BY DEF TypesInv, Held
        <3>2. CASE d = Bsp
            BY <1>6, <1>7, <1>10, <3>1, <3>2
        <3>3. CASE d # Bsp
            BY <1>8, <3>1, <3>3
        <3> QED BY <3>2, <3>3
    <2>3. ASSUME NEW d \in Cpus, loaded'[d] = "permanent"
          PROVE  Fits(mtrr_global_solution', total_mtrrs')
        <3>1. loaded[d] = "permanent"
            BY <1>10, <2>3
        <3>2. Fits(mtrr_global_solution, total_mtrrs)
            BY <3>1 DEF TypesInv, Held
        <3> QED BY <1>1, <3>2
    <2>4. ASSUME loaded'[Bsp] = "temporary", NEW p \in Described', RANGE_1MB <= p
          PROVE  Give(msrs'[Bsp].var, msrs'[Bsp].default, p, WithRom(p, temp)')
        <3>1. p \in Described
            BY <1>4
        <3>2. PICK z : z = temp'
            OBVIOUS
        <3>3. WithRom(p, temp)' = WithRom(p, z)
            <4>1. WithRom(p, z)' = WithRom(p, z)
                BY <1>4
            <4> QED BY <3>2, <4>1 DEF WithRom
        <3>4. Give(msrs'[Bsp].var, msrs'[Bsp].default, p, WithRom(p, z))
            <4>1. CASE Fits(sol, total_mtrrs)
                BY <1>6, <1>10, <2>4, <3>1, <3>2, <4>1
            <4>2. CASE ~Fits(sol, total_mtrrs)
                BY <1>10, <2>4, <3>1, <3>2, <4>2 DEF TypesInv, Held
            <4> QED BY <4>1, <4>2
        <3> QED BY <3>3, <3>4
    <2> QED BY <2>1, <2>2, <2>3, <2>4 DEF Held
<1> QED BY <1>2, <1>3, <1>11 DEF TypesInv

\* The temporary range is taken back.
LEMMA RemoveTypes ==
    ASSUME TypesInv, remove_temp_solution
    PROVE  TypesInv'
<1> DEFINE sol == mtrr_global_solution
<1>1. /\ solved /\ handed' = TRUE
      /\ UNCHANGED hardware
      /\ UNCHANGED <<total_mtrrs, addr_space, fixed_mtrr_types,
                     mtrr_global_solution, solved, put_back_original_solution, temp>>
    BY DEF remove_temp_solution
<1>2. Inv'
    BY RemoveStep DEF TypesInv
<1>3. Hardware' /\ Prepared'
    BY <1>1, PreparedStays DEF TypesInv
<1>4. /\ Described' = Described
      /\ \A p, z : WithRom(p, z)' = WithRom(p, z)
    BY <1>1, Unmoved DEF TypesInv
<1>5. total_mtrrs \in Nat /\ total_mtrrs <= NUM_MTRR_STATIC_STORAGE
    BY <1>1, Detected DEF TypesInv, Inv, Solved
<1>6. sol.regs \in Seq(Reg) /\ Len(sol.regs) <= NUM_MTRR_STATIC_STORAGE
    <2>1. sol.regs \in Seq(Reg) /\ Len(sol.regs) <= total_mtrrs
        BY <1>1 DEF TypesInv, Prepared, FitsFor
    <2>2. Len(sol.regs) \in Nat /\ NUM_MTRR_STATIC_STORAGE \in Nat
        BY <2>1, MtrrAssumption
    <2> QED BY <1>5, <2>1, <2>2
<1>7. Bsp \in Cpus /\ DOMAIN loaded = Cpus
    BY MtrrAssumption DEF TypesInv, Inv, Loaded
<1>8. /\ \A d \in Cpus : d # Bsp => msrs'[d] = msrs[d] /\ loaded'[d] = loaded[d]
      /\ \/ msrs'[Bsp].var = sol.regs /\ Fits(sol, total_mtrrs) /\ loaded'[Bsp] = "permanent"
         \/ msrs'[Bsp] = msrs[Bsp] /\ loaded'[Bsp] = loaded[Bsp]
    <2>1. CASE PutBack
        <3>1. /\ msrs' = [msrs EXCEPT ![Bsp] =
                             commit_var_mtrrs(@, mtrr_global_solution, total_mtrrs)]
              /\ loaded' = [loaded EXCEPT ![Bsp] =
                               IF Fits(mtrr_global_solution, total_mtrrs)
                               THEN "permanent" ELSE loaded[Bsp]]
            BY <2>1 DEF remove_temp_solution
        <3>2. /\ \A d \in Cpus : d # Bsp => msrs'[d] = msrs[d]
              /\ msrs'[Bsp] = IF Fits(sol, total_mtrrs)
                              THEN Regs(fixed_mtrr_types, sol.regs, sol.mtrr_default_type)
                              ELSE msrs[Bsp]
            BY <1>1, <3>1, BspStep DEF TypesInv, hardware
        <3>3. /\ \A d \in Cpus : d # Bsp => loaded'[d] = loaded[d]
              /\ loaded'[Bsp] = IF Fits(sol, total_mtrrs) THEN "permanent" ELSE loaded[Bsp]
            BY <1>7, <3>1
        <3> QED BY <3>2, <3>3, RegsFields
    <2>2. CASE ~PutBack
        BY <2>2 DEF remove_temp_solution
    <2> QED BY <2>1, <2>2
<1> HIDE DEF sol
<1>9. Held'
    <2>1. {solved', put_back_original_solution', handed'} \subseteq BOOLEAN
        BY <1>1 DEF TypesInv, Held
    <2>2. ASSUME NEW d \in Cpus
          PROVE  /\ msrs'[d].var \in Seq(Reg)
                 /\ Len(msrs'[d].var) <= NUM_MTRR_STATIC_STORAGE
        <3>1. /\ msrs[d].var \in Seq(Reg) /\ Len(msrs[d].var) <= NUM_MTRR_STATIC_STORAGE
            BY DEF TypesInv, Held
        <3> QED BY <1>6, <1>8, <3>1
    <2>3. ASSUME NEW d \in Cpus, loaded'[d] = "permanent"
          PROVE  Fits(mtrr_global_solution', total_mtrrs')
        <3>1. loaded[d] = "permanent" => Fits(sol, total_mtrrs)
            BY DEF TypesInv, Held, sol
        <3>2. Fits(sol, total_mtrrs)
            BY <1>8, <2>3, <3>1
        <3> QED BY <1>1, <3>2 DEF sol
    <2>4. ASSUME loaded'[Bsp] = "temporary", NEW p \in Described', RANGE_1MB <= p
          PROVE  Give(msrs'[Bsp].var, msrs'[Bsp].default, p, WithRom(p, temp)')
        <3>1. p \in Described /\ loaded[Bsp] = "temporary" /\ msrs'[Bsp] = msrs[Bsp]
            BY <1>4, <1>8, <2>4
        <3>2. Give(msrs[Bsp].var, msrs[Bsp].default, p, WithRom(p, temp))
            BY <2>4, <3>1 DEF TypesInv, Held
        <3>3. WithRom(p, temp)' = WithRom(p, temp)
            <4>1. PICK z : z = temp /\ z = temp'
                BY <1>1
            <4>2. WithRom(p, z)' = WithRom(p, z)
                BY <1>4
            <4> QED BY <4>1, <4>2 DEF WithRom
        <3> QED BY <3>1, <3>2, <3>3
    <2> QED BY <2>1, <2>2, <2>3, <2>4 DEF Held
<1> QED BY <1>2, <1>3, <1>9 DEF TypesInv

\* Nothing happens.
LEMMA StutterTypes ==
    ASSUME TypesInv, UNCHANGED vars
    PROVE  TypesInv'
<1>1. /\ UNCHANGED hardware
      /\ UNCHANGED <<total_mtrrs, addr_space, fixed_mtrr_types, mtrr_global_solution,
                     solved, put_back_original_solution, msrs, loaded, temp, handed>>
    BY DEF vars
<1>2. Inv'
    BY StepInv DEF TypesInv
<1>3. Hardware' /\ Prepared'
    BY <1>1, PreparedStays DEF TypesInv
<1>4. /\ Described' = Described
      /\ \A p, z : WithRom(p, z)' = WithRom(p, z)
    BY <1>1, Unmoved DEF TypesInv
<1>5. \A p : WithRom(p, temp)' = WithRom(p, temp)
    <2>1. PICK z : z = temp /\ z = temp'
        BY <1>1
    <2> QED BY <1>4, <2>1 DEF WithRom
<1>6. Held'
    BY <1>1, <1>4, <1>5 DEF TypesInv, Held
<1> QED BY <1>2, <1>3, <1>6 DEF TypesInv

\* The invariant in every state.
THEOREM TypesInvariant == Spec => []TypesInv
<1>1. Init => TypesInv
    BY TypesInit
<1>2. TypesInv /\ [Next]_vars => TypesInv'
    BY SetupTypes, TempTypes, RemoveTypes, StutterTypes DEF Next
<1> QED BY <1>1, <1>2, PTL DEF Spec

\* The range list is in order, merged and without a gap below 4 GiB.
LEMMA ShapeRight ==
    ASSUME NEW s, SpaceRight(s) \/ PlainRight(s)
    PROVE  /\ \A i \in DOMAIN s : s[i].tag \in {UC, WC, WB}
           /\ WellFormed(s)
           /\ \A i \in 1 .. Len(s) - 1 :
                 s[i].end + 1 < s[i+1].begin => s[i].end + 1 >= RANGE_4GB
<1>1. /\ List(s) /\ Merged(s) /\ Within(s, 0, Top) /\ Tagged(s, {UC, WC, WB})
      /\ \A p \in Int : p \in Described => \E t : Has(s, p, t)
    BY DEF SpaceRight, PlainRight
<1>2. /\ Len(s) \in Nat /\ DOMAIN s = 1 .. Len(s)
      /\ \A i \in 1 .. Len(s) : s[i] \in Ent /\ s[i] \in Range(s)
      /\ \A x : x \in Range(s) <=> \E i \in 1 .. Len(s) : x = s[i]
    BY <1>1, Members DEF List
<1>3. \A i \in DOMAIN s : s[i].tag \in {UC, WC, WB} /\ s[i].begin <= s[i].end + 1
    BY <1>1, <1>2 DEF Tagged, List, Sorted
<1>4. ASSUME NEW i \in 1 .. Len(s) - 1
      PROVE  /\ i \in 1 .. Len(s) /\ i + 1 \in 1 .. Len(s) /\ i < i + 1
    BY <1>2
<1>5. ASSUME NEW i \in 1 .. Len(s) - 1
      PROVE  /\ s[i].end < s[i+1].begin
             /\ s[i].end + 1 = s[i+1].begin => s[i].tag # s[i+1].tag
    BY <1>1, <1>4 DEF List, Sorted, Merged
<1>6. WellFormed(s)
    BY <1>3, <1>5 DEF WellFormed
<1>7. ASSUME NEW i \in 1 .. Len(s) - 1, s[i].end + 1 < s[i+1].begin
      PROVE  s[i].end + 1 >= RANGE_4GB
    <2> DEFINE e == s[i].end + 1
    <2>1. s[i].end \in Int /\ s[i].begin \in Int /\ s[i+1].begin \in Int
        BY <1>2, <1>4, EntForm
    <2>2. e \in Int /\ 0 <= e /\ s[i].end < e
        <3>1. 0 <= s[i].begin /\ s[i].begin <= s[i].end + 1
            BY <1>1, <1>2, <1>3, <1>4 DEF Within
        <3> QED BY <2>1, <3>1
    <2>3. e < s[i+1].begin
        BY <1>7
    <2> HIDE DEF e
    <2> SUFFICES ASSUME e < RANGE_4GB PROVE FALSE
        BY <2>2, Lines DEF e
    <2>4. e \in Described
        BY <2>2, Lines DEF Described, Page
    <2>5. PICK j \in 1 .. Len(s) : On(s[j], e)
        BY <1>1, <1>2, <2>2, <2>4 DEF Has
    <2>6. CASE j <= i
        <3>1. s[j].end <= s[i].end /\ s[j].end \in Int
            BY <1>1, <1>4, <2>6, Apart
        <3> QED BY <2>1, <2>2, <2>5, <3>1 DEF On
    <2>7. CASE i + 1 <= j
        <3>1. s[i+1].begin <= s[j].begin /\ s[j].begin \in Int
            BY <1>1, <1>4, <2>7, Apart
        <3> QED BY <2>1, <2>2, <2>3, <2>5, <3>1 DEF On
    <2> QED BY <1>2, <1>4, <2>6, <2>7
<1> QED BY <1>3, <1>6, <1>7

\* Whatever the resources, the range list the MTRRs are calculated from is in
\* order, merged and without a gap below 4 GiB, and no CPU has more registers
\* than there is storage for.
THEOREM TypesAreOK == Spec => []TypeOK
<1>1. TypesInv => TypeOK
    <2> SUFFICES ASSUME TypesInv PROVE TypeOK
        OBVIOUS
    <2>1. /\ resources \subseteq Resource /\ capability \in Capabilities /\ above4gb \in BOOLEAN
        BY DEF TypesInv, Hardware, Resources
    <2>2. {solved, put_back_original_solution, handed, above4gb} \subseteq BOOLEAN
        BY <2>1 DEF TypesInv, Held
    <2>3. \A c \in Cpus : /\ loaded[c] \in {"reset", "permanent", "temporary"}
                           /\ Len(msrs[c].var) <= NUM_MTRR_STATIC_STORAGE
        BY DEF TypesInv, Inv, Loaded, Held
    <2>4. /\ \A i \in DOMAIN addr_space : addr_space[i].tag \in {UC, WC, WB}
          /\ WellFormed(addr_space)
          /\ \A i \in 1 .. Len(addr_space) - 1 :
                addr_space[i].end + 1 < addr_space[i+1].begin =>
                    addr_space[i].end + 1 >= RANGE_4GB
        <3>1. CASE solved
            BY <3>1, ShapeRight DEF TypesInv, Prepared
        <3>2. CASE ~solved
            <4>1. addr_space = <<>> /\ Len(<<>>) = 0 /\ DOMAIN <<>> = {}
                BY <3>2 DEF TypesInv, Prepared
            <4>2. 1 .. 0 - 1 = {}
                OBVIOUS
            <4> QED BY <4>1, <4>2 DEF WellFormed
        <3> QED BY <3>1, <3>2
    <2>5. \A i \in DOMAIN mtrr_global_solution.regs :
             mtrr_global_solution.regs[i].type \in MtrrType
        <3>1. mtrr_global_solution.regs \in Seq(Reg)
            <4>1. CASE solved
                BY <4>1 DEF TypesInv, Prepared, FitsFor
            <4>2. CASE ~solved
                <5>1. mtrr_global_solution = NoSolution
                    BY <4>2 DEF TypesInv, Prepared
                <5>2. NoSolution.regs = <<>> /\ <<>> \in Seq(Reg)
                    BY DEF NoSolution
                <5> QED BY <5>1, <5>2
            <4> QED BY <4>1, <4>2
        <3>2. \A i \in DOMAIN mtrr_global_solution.regs : mtrr_global_solution.regs[i] \in Reg
            BY <3>1, Members
        <3> QED BY <3>2 DEF Reg
    <2> QED BY <2>1, <2>2, <2>3, <2>4, <2>5 DEF TypeOK
<1> QED BY <1>1, TypesInvariant, PTL

\* For every set of resources, every number of registers and every ROM: each
\* CPU that has loaded a solution gives every page the type its resource asks
\* for.
THEOREM TypesAreRight == Spec => []TypesRight
<1>1. TypesInv => TypesRight
    <2> SUFFICES ASSUME TypesInv, NEW c \in Cpus, NEW p \in Described
                 PROVE  LET type == Effective(msrs[c], p)
                        IN /\ loaded[c] # "reset" /\ p < RANGE_1MB => type = Wanted(p)
                           /\ loaded[c] = "permanent" /\ p >= RANGE_1MB
                                 /\ (above4gb \/ p < RANGE_4GB) =>
                                 type = Wanted(p) \/ (Wanted(p) = WC /\ type = UC)
                           /\ loaded[c] = "temporary" /\ p >= RANGE_1MB =>
                                 type = IF p \in RANGE_4GB - temp .. RANGE_4GB - 1 THEN WP
                                        ELSE IF Wanted(p) = WC THEN UC ELSE Wanted(p)
        BY DEF TypesRight
    <2>0. p \in Nat /\ (p >= RANGE_1MB <=> RANGE_1MB <= p)
        BY Lines DEF Described, Page
    <2>1. loaded[c] # "reset" =>
             /\ solved /\ loaded[c] \in {"permanent", "temporary"}
             /\ SpaceRight(addr_space) \/ PlainRight(addr_space)
             /\ \A q \in 0 .. RANGE_1MB - 1 : fixed_mtrr_types[q] = Wanted(q)
             /\ FitsFor(mtrr_global_solution, total_mtrrs, addr_space, above4gb)
        BY DEF TypesInv, Inv, Solved, Loaded, Prepared
    <2>2. ASSUME loaded[c] # "reset", p < RANGE_1MB PROVE Effective(msrs[c], p) = Wanted(p)
        <3>1. msrs[c].fixed = fixed_mtrr_types
            BY <2>1, <2>2, RegsFields DEF TypesInv, Inv, Solved, Loaded, Permanent
        <3>2. Effective(msrs[c], p) = msrs[c].fixed[p]
            BY <2>2 DEF Effective
        <3>3. p \in 0 .. RANGE_1MB - 1
            BY <2>0, <2>2, Lines
        <3> QED BY <2>1, <2>2, <3>1, <3>2, <3>3
    <2>3. ASSUME loaded[c] = "permanent", p >= RANGE_1MB, above4gb \/ p < RANGE_4GB
          PROVE  \/ Effective(msrs[c], p) = Wanted(p)
                 \/ Wanted(p) = WC /\ Effective(msrs[c], p) = UC
        <3>1. /\ msrs[c].var = mtrr_global_solution.regs
              /\ msrs[c].default = mtrr_global_solution.mtrr_default_type
            BY <2>3, RegsFields DEF TypesInv, Inv, Loaded, Permanent
        <3>2. Solves(msrs[c].var, msrs[c].default, addr_space, above4gb)
            BY <2>1, <2>3, <3>1 DEF TypesInv, Held, FitsFor
        <3>3. \A t : Has(addr_space, p, t) => Effective(msrs[c], p) = t
            <4> TAKE t
            <4> HAVE Has(addr_space, p, t)
            <4>1. Give(msrs[c].var, msrs[c].default, p, t) /\ msrs[c].var \in Seq(Reg)
                BY <2>0, <2>3, <3>2 DEF Solves
            <4> QED BY <2>0, <2>3, <4>1, EffectiveRight
        <3>4. Has(addr_space, p, Wanted(p)) \/ Has(addr_space, p, Plain(p))
            BY <2>0, <2>1, <2>3 DEF SpaceRight, PlainRight
        <3> QED BY <3>3, <3>4 DEF Plain
    <2>4. ASSUME loaded[c] = "temporary", p >= RANGE_1MB
          PROVE  Effective(msrs[c], p) =
                    IF p \in RANGE_4GB - temp .. RANGE_4GB - 1 THEN WP
                    ELSE IF Wanted(p) = WC THEN UC ELSE Wanted(p)
        <3>1. c = Bsp /\ msrs[c].var \in Seq(Reg)
            BY <2>4 DEF TypesInv, Inv, Loaded, Held
        <3>2. Give(msrs[c].var, msrs[c].default, p, WithRom(p, temp))
            BY <2>0, <2>4, <3>1 DEF TypesInv, Held
        <3>3. Effective(msrs[c], p) = WithRom(p, temp)
            BY <2>0, <2>4, <3>1, <3>2, EffectiveRight
        <3>4. p \in RANGE_4GB - temp .. RANGE_4GB - 1 <=> RANGE_4GB - temp <= p /\ p < RANGE_4GB
            BY <2>0, Lines
        <3> QED BY <3>3, <3>4 DEF WithRom, Plain
    <2> QED BY <2>2, <2>3, <2>4
<1> QED BY <1>1, TypesInvariant, PTL
=============================================================================
