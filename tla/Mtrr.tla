-------------------------------- MODULE Mtrr --------------------------------
(***************************************************************************)
(* cpu/x86/mtrr/mtrr.c: from the resources of the device tree to memory    *)
(* type range registers of every CPU.  The address space is collected into *)
(* one range list, the cheaper default type is chosen, the other ranges    *)
(* are cut into aligned powers of two, and write-back ranges may be        *)
(* rounded up over an uncacheable hole.  A temporary range (the boot ROM,  *)
(* write-protected) may be added on the BSP until the payload is loaded.   *)
(*                                                                         *)
(* Addresses are pages of a small space: RANGE_1MB and RANGE_4GB are       *)
(* constants and Top is the end of the space the CPU can address.          *)
(***************************************************************************)
EXTENDS MemRange, FiniteSets, FiniteSetsExt

CONSTANTS
    Cpus, Bsp,              \* the CPUs, and the boot CPU among them
    RANGE_1MB, RANGE_4GB,
    AddressBits,            \* the CPU addresses 1 << AddressBits pages
    NUM_MTRR_STATIC_STORAGE,
    Capabilities,           \* numbers of variable MTRRs a CPU may have
    Edges,                  \* where resources may begin and end
    MaxResources,           \* bound on the resources of the device tree
    RomSizes                \* sizes of the ROM mapped below 4 GiB

\* 1 << n
Bit[n \in 0 .. AddressBits + 1] == IF n = 0 THEN 1 ELSE 2 * Bit[n-1]

Top == Bit[AddressBits]

\* The CPU can address the first 4 GiB and every resource.
ASSUME MtrrAssumption ==
    /\ Bsp \in Cpus
    /\ RANGE_1MB \in Nat \ {0} /\ RANGE_4GB \in Nat
    /\ RANGE_1MB <= RANGE_4GB /\ RANGE_4GB <= Top
    /\ AddressBits \in Nat /\ Edges \subseteq 0 .. Top
    /\ NUM_MTRR_STATIC_STORAGE \in Nat /\ Capabilities \subseteq Nat
    /\ MaxResources \in Nat \ {0} /\ RomSizes \subseteq 0 .. RANGE_4GB

BIOS_MTRRS == 6
OS_MTRRS == 2
Page == 0 .. Top - 1

UC == 0
WC == 1
WP == 5
WB == 6
MtrrType == {UC, WC, WP, WB}

Resource == {r \in [base : Edges, end : Edges, type : {UC, WC, WB}] :
                r.base < r.end}

VARIABLES
    resources,     \* memory resources; WC stands for a VGA's prefetchable memory
    capability,    \* MTRR_CAP_MSR
    above4gb,
    total_mtrrs,
    addr_space,    \* <<>> until the first caller collects it
    fixed_mtrr_types,
    mtrr_global_solution,
    solved,        \* x86_setup_var_mtrrs has its solution
    put_back_original_solution,
    msrs,          \* per CPU: fixed types, variable MTRRs, default type
    loaded,        \* per CPU: whose solution the registers hold
    temp,          \* the temporary range
    handed         \* the payload is loaded, or the OS about to be resumed

hardware == <<resources, capability, above4gb>>

vars == <<hardware, total_mtrrs, addr_space, fixed_mtrr_types,
          mtrr_global_solution, solved, put_back_original_solution, msrs,
          loaded, temp, handed>>

-----------------------------------------------------------------------------
(***************************************************************************)
(* The physical address space.                                             *)
(***************************************************************************)

memranges_add_resources(ranges, matching, tag) ==
    FoldSet(LAMBDA r, acc : memranges_insert(acc, r.base, r.end - r.base, tag),
            ranges, matching)

\* Cacheable first, then everything not cacheable, then the VGA's apertures.
Collected ==
    LET of(types)   == {r \in resources : r.type \in types}
        cacheable   == memranges_add_resources(<<>>, of({WB}), WB)
        uncacheable == memranges_add_resources(cacheable, of({UC, WC}), UC)
    IN memranges_add_resources(uncacheable, of({WC}), WC)

get_physical_address_space ==
    IF addr_space # <<>> THEN addr_space
    ELSE memranges_fill_holes_up_to(Collected, RANGE_4GB, UC)

\* The type of every page below 1 MiB; what no entry covers is uncacheable.
calc_fixed_mtrrs(space) ==
    [p \in 0 .. RANGE_1MB - 1 |->
        LET over == {i \in DOMAIN space : p \in space[i].begin .. space[i].end}
        IN IF over = {} THEN UC ELSE space[CHOOSE i \in over : TRUE].tag]

commit_fixed_mtrrs(m, types) == [m EXCEPT !.fixed = types]

-----------------------------------------------------------------------------
(***************************************************************************)
(* The variable MTRRs.                                                     *)
(***************************************************************************)

Pow2 == {Bit[i] : i \in 0 .. AddressBits}

\* Largest power of two that fits in size and keeps base aligned.
Largest(base, size) ==
    CHOOSE q \in Pow2 : /\ q <= size /\ base % q = 0
                        /\ 2 * q > size \/ base % (2 * q) # 0

calc_var_mtrr_range(base0, size0, type) ==
    LET Cut[size \in 0 .. size0] ==
          IF size = 0 THEN <<>>
          ELSE LET base == base0 + size0 - size
                   q    == Largest(base, size)
               IN <<[base |-> base, size |-> q, type |-> type]>> \o Cut[size - q]
    IN Cut[size0]

ALIGN_UP(x, a) == ((x + a - 1) \div a) * a

\* Position of the lowest and of the highest bit set.
fls(x) == CHOOSE i \in 0 .. AddressBits : x % Bit[i] = 0 /\ x % Bit[i+1] # 0
fms(x) == CHOOSE i \in 0 .. AddressBits : Bit[i] <= x /\ x < Bit[i+1]

optimize_var_mtrr_hole(base, hole, limit, carve_hole) ==
    LET Count(b, size) == Len(calc_var_mtrr_range(b, size, UC))
        Ends == {ALIGN_UP(hole, Bit[align]) : align \in fls(hole) + 1 .. fms(hole)}
        Tried == {e \in Ends : e <= limit} \cup {hole}
        Costs == {<<Count(base, e - base)
                    + (IF carve_hole THEN Count(hole, e - hole) ELSE 0), e>> :
                  e \in Tried}
        best  == CHOOSE c \in Costs : \A d \in Costs :
                    c[1] < d[1] \/ (c[1] = d[1] /\ c[2] <= d[2])
    IN best[2]

\* A plausible slip: the excess is never taken back.
HoleLimit_NotCarved(space, i, begin, end) ==
    [limit |-> IF i = Len(space) THEN ALIGN_UP(end, Bit[fms(end)])
               ELSE IF space[i+1].tag = UC THEN range_entry_end(space[i+1])
               ELSE space[i+1].begin,
     carve |-> FALSE]

\* How far a write-back range may be rounded up, and whether the excess is
\* taken back by uncacheable MTRRs.
HoleLimit(space, i, begin, end) ==
    IF i = Len(space)
    THEN [limit |-> ALIGN_UP(end, Bit[fms(end)]), carve |-> begin < RANGE_4GB]
    ELSE [limit |-> IF space[i+1].tag = UC THEN range_entry_end(space[i+1])
                    ELSE space[i+1].begin,
          carve |-> TRUE]

\* The variable MTRRs spent on entry i, in the order they are prepared.
calc_var_mtrrs_with_hole(space, i, above) ==
    LET type == space[i].tag
        a1   == IF space[i].begin <= RANGE_1MB THEN 0 ELSE space[i].begin
        a2   == IF ~above /\ range_entry_end(space[i]) > RANGE_4GB
                THEN RANGE_4GB ELSE range_entry_end(space[i])
        hole == HoleLimit(space, i, a1, a2)
        b2   == optimize_var_mtrr_hole(a1, a2, hole.limit, hole.carve)
    IN IF \/ range_entry_end(space[i]) <= RANGE_1MB
          \/ ~above /\ a1 >= RANGE_4GB
       THEN <<>>
       ELSE IF type # WB THEN calc_var_mtrr_range(a1, a2 - a1, type)
       ELSE calc_var_mtrr_range(a1, b2 - a1, WB)
            \o (IF hole.carve THEN calc_var_mtrr_range(a2, b2 - a2, UC) ELSE <<>>)

\* Every MTRR needed when def is the default type.
VarMtrrs(space, def, above) ==
    FlattenSeq([i \in DOMAIN space |->
        IF space[i].tag = def THEN <<>>
        ELSE calc_var_mtrrs_with_hole(space, i, above)])

\* The default type, and the address space it was chosen for: WRCOMB is
\* given up when neither default leaves the OS its registers.
calc_var_mtrrs(space, above, total) ==
    LET wb == Len(VarMtrrs(space, WB, above))
        uc == Len(VarMtrrs(space, UC, above))
        plain == memranges_update_tag(space, WC, UC)
        Fewer(w, u) == IF w < u THEN WB ELSE UC
    IN IF wb > total - OS_MTRRS /\ uc > total - OS_MTRRS
       THEN [space |-> plain,
             def |-> Fewer(Len(VarMtrrs(plain, WB, above)),
                           Len(VarMtrrs(plain, UC, above)))]
       ELSE [space |-> space, def |-> Fewer(wb, uc)]

\* Ranges that the CPU has no register for are dropped.
prep_var_mtrr(all, total) == SubSeq(all, 1, Min({Len(all), total}))

\* num_used counts the dropped ranges too.
prepare_var_mtrrs(space, def, above, total) ==
    LET all == VarMtrrs(space, def, above)
    IN [mtrr_default_type |-> def, num_used |-> Len(all),
        regs |-> prep_var_mtrr(all, total)]

Fits(sol, total) == sol.num_used <= total

commit_var_mtrrs(m, sol, total) ==
    IF Fits(sol, total)
    THEN [m EXCEPT !.var = sol.regs, !.default = sol.mtrr_default_type]
    ELSE m

NoSolution == [mtrr_default_type |-> UC, num_used |-> 0, regs |-> <<>>]

-----------------------------------------------------------------------------
Init ==
    /\ \E dram \in {r \in Resource : r.base = 0 /\ r.type = WB} :
          \E others \in [1 .. MaxResources - 1 -> Resource] :
             resources = {dram} \cup Range(others)
    /\ ~HoleBehindLimit(Collected, RANGE_4GB)
    /\ capability \in Capabilities
    /\ above4gb \in BOOLEAN
    /\ total_mtrrs = BIOS_MTRRS + OS_MTRRS
    /\ addr_space = <<>>
    /\ fixed_mtrr_types = <<>>
    /\ mtrr_global_solution = NoSolution
    /\ solved = FALSE
    /\ put_back_original_solution = FALSE
    /\ msrs = [c \in Cpus |-> [fixed |-> [p \in 0 .. RANGE_1MB - 1 |-> UC],
                               var |-> <<>>, default |-> UC]]
    /\ loaded = [c \in Cpus |-> "reset"]
    /\ temp = 0
    /\ handed = FALSE

detect_var_mtrrs == Min({capability, NUM_MTRR_STATIC_STORAGE})

\* The first caller collects the address space, the fixed types and the
\* solution; later callers, the APs among them, load what it left.
x86_setup_mtrrs_with_detect(c) ==
    LET space == get_physical_address_space
        fixed == IF fixed_mtrr_types # <<>> THEN fixed_mtrr_types
                 ELSE calc_fixed_mtrrs(space)
        total == detect_var_mtrrs
        calc  == calc_var_mtrrs(space, above4gb, total)
        sol   == IF solved THEN mtrr_global_solution
                 ELSE prepare_var_mtrrs(calc.space, calc.def, above4gb, total)
    IN /\ c = Bsp \/ solved
       /\ total_mtrrs' = total
       /\ addr_space' = IF solved THEN space ELSE calc.space
       /\ fixed_mtrr_types' = fixed
       /\ mtrr_global_solution' = sol
       /\ solved' = TRUE
       /\ msrs' = [msrs EXCEPT ![c] =
                     commit_var_mtrrs(commit_fixed_mtrrs(@, fixed), sol, total)]
       /\ loaded' = [loaded EXCEPT ![c] =
                       IF Fits(sol, total) THEN "permanent" ELSE @]
       /\ UNCHANGED <<hardware, put_back_original_solution, temp, handed>>

\* The address space with the ROM in it and without WRCOMB.
TempSpace(size) ==
    LET plain[n \in 0 .. Len(addr_space)] ==
          IF n = 0 THEN <<>>
          ELSE LET r == addr_space[n]
               IN memranges_insert(plain[n-1], r.begin, range_entry_size(r),
                                   IF r.tag = WC THEN UC ELSE r.tag)
    IN memranges_insert(plain[Len(addr_space)], RANGE_4GB - size, size, WP)

\* On the BSP, after the first solution, for the ROM that ends at 4 GiB.
mtrr_use_temp_range(size) ==
    LET calc == calc_var_mtrrs(TempSpace(size), TRUE, total_mtrrs)
        sol  == prepare_var_mtrrs(calc.space, calc.def, TRUE, total_mtrrs)
    IN /\ solved
       /\ ~handed
       /\ msrs' = [msrs EXCEPT ![Bsp] = commit_var_mtrrs(@, sol, total_mtrrs)]
       /\ IF Fits(sol, total_mtrrs)
          THEN /\ put_back_original_solution' = TRUE
               /\ loaded' = [loaded EXCEPT ![Bsp] = "temporary"]
               /\ temp' = size
          ELSE UNCHANGED <<put_back_original_solution, loaded, temp>>
       /\ UNCHANGED <<hardware, total_mtrrs, addr_space, fixed_mtrr_types,
                      mtrr_global_solution, solved, handed>>

\* A plausible slip: the flag is never looked at, the callback does nothing.
PutBack_Never == FALSE

PutBack == put_back_original_solution

\* On leaving BS_PAYLOAD_LOAD, or on entering BS_OS_RESUME.
remove_temp_solution ==
    /\ solved
    /\ ~handed
    /\ handed' = TRUE
    /\ IF PutBack
       THEN /\ msrs' = [msrs EXCEPT ![Bsp] =
                          commit_var_mtrrs(@, mtrr_global_solution, total_mtrrs)]
            /\ loaded' = [loaded EXCEPT ![Bsp] =
                            IF Fits(mtrr_global_solution, total_mtrrs)
                            THEN "permanent" ELSE @]
       ELSE UNCHANGED <<msrs, loaded>>
    /\ UNCHANGED <<hardware, total_mtrrs, addr_space, fixed_mtrr_types,
                   mtrr_global_solution, solved, put_back_original_solution,
                   temp>>

Next ==
    \/ \E c \in Cpus : x86_setup_mtrrs_with_detect(c)
    \/ \E size \in RomSizes : mtrr_use_temp_range(size)
    \/ remove_temp_solution

Spec == Init /\ [][Next]_vars

-----------------------------------------------------------------------------
(***************************************************************************)
(* What the CPU makes of its registers, and what it should make of them.   *)
(***************************************************************************)

\* A variable MTRR covers the pages that agree with its base under its mask.
Covers(reg, p) == p \div reg.size = reg.base \div reg.size

\* Fixed ranges come first, then variable ones, of which uncacheable wins;
\* any other disagreement has no defined type.
Effective(m, p) ==
    LET over  == {i \in DOMAIN m.var : Covers(m.var[i], p)}
        types == {m.var[i].type : i \in over}
    IN IF p < RANGE_1MB THEN m.fixed[p]
       ELSE CASE types = {}   -> m.default
              [] UC \in types -> UC
              [] UC \notin types /\ Cardinality(types) = 1 -> CHOOSE t \in types : TRUE
              [] OTHER        -> -1

In(p, type) == \E r \in resources : r.type = type /\ p \in r.base .. r.end - 1

\* Pages of which the device tree, or the filling of holes, says something.
Described == {p \in Page : p < RANGE_4GB \/ \E t \in {UC, WC, WB} : In(p, t)}

Wanted(p) == IF In(p, WC) THEN WC ELSE IF ~In(p, UC) /\ In(p, WB) THEN WB ELSE UC

-----------------------------------------------------------------------------
(***************************************************************************)
(* Types, and the shape of the range list: in order, disjoint, merged, and *)
(* without a gap below 4 GiB, as the MTRR calculations require             *)
(* (get_physical_address_space).                                           *)
(***************************************************************************)
TypeOK ==
    /\ resources \subseteq Resource
    /\ capability \in Capabilities
    /\ \A i \in DOMAIN addr_space : addr_space[i].tag \in {UC, WC, WB}
    /\ WellFormed(addr_space)
    /\ \A i \in 1 .. Len(addr_space) - 1 :
          addr_space[i].end + 1 < addr_space[i+1].begin =>
              addr_space[i].end + 1 >= RANGE_4GB
    /\ \A i \in DOMAIN mtrr_global_solution.regs :
          mtrr_global_solution.regs[i].type \in MtrrType
    /\ {solved, put_back_original_solution, handed, above4gb} \subseteq BOOLEAN
    /\ \A c \in Cpus : /\ loaded[c] \in {"reset", "permanent", "temporary"}
                        /\ Len(msrs[c].var) <= NUM_MTRR_STATIC_STORAGE

(***************************************************************************)
(* Whatever the resources, every CPU that has loaded a solution gives      *)
(* every page the type its resource asks for: merged lists, power-of-two   *)
(* pieces, rounded-up ranges with their carved holes, either default type  *)
(* and dropped registers never show.  Write-combining may have been given  *)
(* up for uncacheable (calc_var_mtrrs); the temporary solution gives it up *)
(* always and has the ROM write-protected.  Without above4gb the permanent *)
(* solution speaks of pages below 4 GiB only (x86_setup_var_mtrrs).        *)
(***************************************************************************)
TypesRight ==
    \A c \in Cpus : \A p \in Described :
        LET type == Effective(msrs[c], p)
        IN /\ loaded[c] # "reset" /\ p < RANGE_1MB => type = Wanted(p)
           /\ loaded[c] = "permanent" /\ p >= RANGE_1MB
                 /\ (above4gb \/ p < RANGE_4GB) =>
                 type = Wanted(p) \/ (Wanted(p) = WC /\ type = UC)
           /\ loaded[c] = "temporary" /\ p >= RANGE_1MB =>
                 type = IF p \in RANGE_4GB - temp .. RANGE_4GB - 1 THEN WP
                        ELSE IF Wanted(p) = WC THEN UC ELSE Wanted(p)

(***************************************************************************)
(* Once the payload is loaded or the OS is resumed, the CPUs that loaded a *)
(* solution agree on all registers, and none holds the temporary range: a  *)
(* temporary solution is taken back whenever the one it replaced fits      *)
(* (remove_temp_solution).  If the permanent solution needs more registers *)
(* than there are, it cannot be put back and the temporary one stays.      *)
(***************************************************************************)
SameForTheOS ==
    handed /\ Fits(mtrr_global_solution, total_mtrrs) =>
        \A c, d \in Cpus :
            /\ loaded[c] # "temporary"
            /\ loaded[c] # "reset" /\ loaded[d] # "reset" => msrs[c] = msrs[d]
=============================================================================
