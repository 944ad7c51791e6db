----------------------------- MODULE RiscvConfig -----------------------------
(***************************************************************************)
(* The configuration script of the RISC-V port (src/arch/riscv/config.py): *)
(* one run of parse_config, token by token.                                *)
(*                                                                         *)
(* A specification "RV64IMA_Zicsr" is its XLEN and a sequence of symbols:  *)
(* capital letters, underscores, and names that start with Z (the script   *)
(* never looks into one other than to find its first letter).              *)
(*                                                                         *)
(* Names that ConfigHeader has as well start with Script here: the proofs  *)
(* are about both.                                                         *)
(***************************************************************************)
EXTENDS Integers, Sequences

CONSTANTS
    Inputs      \* the arguments of the script: [xlen, exts, abi, mmu], where an
                \* abi or mmu stands for its name in capital or small letters alike

Unprivileged == <<"M", "A", "F", "D", "C">>
Machine == <<"Zicsr", "Zifencei">>
Ext == {"I", "M", "A", "F", "D", "C", "Zicsr", "Zifencei"}
ZNames == {"Zicsr", "Zifencei", "Zother"}
Symbols == Ext \cup ZNames \cup {"G", "X", "underscore"}

XlenAbis == [x \in {32, 64} |-> IF x = 32 THEN {"ilp32", "ilp32f", "ilp32d"}
                                ELSE {"lp64", "lp64f", "lp64d"}]
XlenMmus == [x \in {32, 64} |-> IF x = 32 THEN {"bare", "sv32"} ELSE {"bare", "sv39", "sv48"}]
BaseExts == [b \in {"I", "G"} |-> IF b = "I" THEN {"I"} ELSE {"I", "M", "A", "D", "Zifencei"}]

ImpliedExts(e) == IF e = "F" THEN {"Zicsr"} ELSE IF e = "D" THEN {"F"} ELSE {}

AbiExts(a) ==
    IF a \in {"ilp32f", "lp64f"} THEN {"F"} ELSE IF a \in {"ilp32d", "lp64d"} THEN {"D"} ELSE {}

MmuExts(m) == IF m = "bare" THEN {} ELSE {"Zicsr"}

ASSUME ConfigAssumption ==
    \A i \in Inputs : i.exts \in Seq(Symbols) /\ i.abi \in STRING /\ i.mmu \in STRING

VARIABLES
    input,
    stage,     \* what is parsed next, or "accepted" or "refused"
    spec,      \* the symbols not read yet
    section,   \* what the running section may still contain, in order
    exts,      \* the extensions found so far
    report     \* the specification that kernel-config and cflags print

script == <<input, stage, spec, section, exts, report>>

ScriptInit ==
    /\ input \in Inputs
    /\ stage = "xlen"
    /\ spec = input.exts
    /\ section = <<>>
    /\ exts = {}
    /\ report = <<>>

-----------------------------------------------------------------------------
\* A plausible mistake: an extension implies its neighbours only.
ClosureOfOneStep(s) == s \cup UNION {ImpliedExts(e) : e \in s}

\* get_exts_closure; no chain of implications is longer than D, F, Zicsr.
Closure(s) ==
    LET once == s \cup UNION {ImpliedExts(e) : e \in s}
    IN once \cup UNION {ImpliedExts(e) : e \in once}

Refuse == stage' = "refused" /\ UNCHANGED <<input, spec, section, exts, report>>

ParseXlen ==
    /\ stage = "xlen"
    /\ IF input.xlen \in {32, 64}
       THEN stage' = "base" /\ UNCHANGED <<input, spec, section, exts, report>>
       ELSE Refuse

ParseBase ==
    /\ stage = "base"
    /\ IF spec = <<>> \/ Head(spec) \notin {"I", "G"}
       THEN Refuse
       ELSE /\ exts' = Closure(BaseExts[Head(spec)])
            /\ spec' = Tail(spec)
            /\ section' = Unprivileged
            /\ stage' = "unprivileged"
            /\ UNCHANGED <<input, report>>

InSection == stage \in {"unprivileged", "machine"}

SkipUnderscore ==
    /\ InSection /\ spec # <<>> /\ Head(spec) = "underscore"
    /\ spec' = Tail(spec)
    /\ UNCHANGED <<input, stage, section, exts, report>>

\* The unprivileged section ends before a Z, the other one before anything else.
SectionEnds ==
    \/ spec = <<>>
    \/ /\ spec # <<>>
       /\ Head(spec) \in IF stage = "unprivileged" THEN ZNames
                          ELSE Symbols \ (ZNames \cup {"underscore"})

\* After the last section nothing may be left.
LeaveSection ==
    /\ InSection /\ SectionEnds
    /\ IF stage = "machine" /\ spec # <<>>
       THEN Refuse
       ELSE /\ stage' = IF stage = "unprivileged" THEN "machine" ELSE "abi"
            /\ section' = Machine
            /\ UNCHANGED <<input, spec, exts, report>>

\* A token is one letter, or runs from a Z to the next underscore.
TokenEnds(k) ==
    IF stage = "unprivileged" THEN k = 1
    ELSE /\ \A j \in 1 .. k : spec[j] # "underscore"
         /\ k < Len(spec) => spec[k + 1] = "underscore"

\* The token must be an extension of the section that has not been passed; what
\* comes before it in the section is passed with it.
ParseExt ==
    /\ InSection /\ ~SectionEnds /\ Head(spec) # "underscore"
    /\ \E k \in 1 .. Len(spec) :
        /\ TokenEnds(k)
        /\ \/ /\ k = 1
              /\ \E i \in DOMAIN section :
                  /\ section[i] = Head(spec)
                  /\ section' = SubSeq(section, i + 1, Len(section))
              /\ exts' = exts \cup Closure({Head(spec)})
              /\ spec' = Tail(spec)
              /\ UNCHANGED <<input, stage, report>>
           \/ /\ k > 1 \/ \A i \in DOMAIN section : section[i] # Head(spec)
              /\ Refuse

-----------------------------------------------------------------------------
CheckAbi ==
    /\ stage = "abi"
    /\ IF input.abi \in {a \in XlenAbis[input.xlen] : AbiExts(a) \subseteq exts}
       THEN stage' = "mmu" /\ UNCHANGED <<input, spec, section, exts, report>>
       ELSE Refuse

CheckMmu ==
    /\ stage = "mmu"
    /\ IF input.mmu \in XlenMmus[input.xlen] /\ MmuExts(input.mmu) \subseteq exts
       THEN stage' = "accepted" /\ UNCHANGED <<input, spec, section, exts, report>>
       ELSE Refuse

-----------------------------------------------------------------------------
\* [x for x in names if x in s]
Chosen(names, s) ==
    LET upTo[k \in 0 .. Len(names)] ==
            IF k = 0 THEN <<>>
            ELSE IF names[k] \in s THEN Append(upTo[k - 1], names[k]) ELSE upTo[k - 1]
    IN upTo[Len(names)]

\* "_".join(names)
Joined(names) ==
    [k \in 1 .. 2 * Len(names) - 1 |->
        IF k % 2 = 1 THEN names[(k + 1) \div 2] ELSE "underscore"]

\* The largest base whose closure the set contains, then what it leaves over.
BaseOf(s) ==
    IF Closure(BaseExts["G"]) \subseteq s THEN <<"G">>
    ELSE IF "I" \in s THEN <<"I">> ELSE <<>>

LeftOver(s) == IF BaseOf(s) = <<>> THEN s ELSE s \ Closure(BaseExts[BaseOf(s)[1]])

\* A plausible mistake: names that start with Z run into each other.
FormatRunningOn(s) ==
    BaseOf(s) \o Chosen(Unprivileged, LeftOver(s))
    \o Chosen(Machine, LeftOver(s))

\* format_exts, with its underscores stripped at both ends.
Format(s) ==
    LET letters == BaseOf(s) \o Chosen(Unprivileged, LeftOver(s))
        names == Chosen(Machine, LeftOver(s))
    IN letters \o (IF letters # <<>> /\ names # <<>> THEN <<"underscore">> ELSE <<>>) \o Joined(names)

\* do_kernel_config, and do_cflags, which prints the same in small letters
Report ==
    /\ stage = "accepted" /\ stage' = "reported"
    /\ report' = Format(exts)
    /\ UNCHANGED <<input, spec, section, exts>>

ScriptNext ==
    \/ ParseXlen \/ ParseBase \/ SkipUnderscore \/ LeaveSection \/ ParseExt
    \/ CheckAbi \/ CheckMmu \/ Report

ScriptSpec == ScriptInit /\ [][ScriptNext]_script

-----------------------------------------------------------------------------
(***************************************************************************)
(* What a specification means, without the parser: after the base, ranked  *)
(* names in strictly rising order, any number of underscores between them, *)
(* at least one between two names that start with Z.                       *)
(***************************************************************************)
Ranked == Unprivileged \o Machine
Rank(x) == CHOOSE k \in 1 .. 7 : Ranked[k] = x
Closed(s) == \A e \in s : ImpliedExts(e) \subseteq s
LeastClosed(s) == {e \in Ext : \A t \in SUBSET Ext : s \subseteq t /\ Closed(t) => e \in t}

WellFormed(sp) ==
    LET names == {k \in 2 .. Len(sp) : sp[k] # "underscore"}
    IN /\ sp # <<>> /\ sp[1] \in {"I", "G"}
       /\ \A k \in names : sp[k] \in Ext \ {"I"}
       /\ \A j, k \in names : j < k => Rank(sp[j]) < Rank(sp[k])
       /\ \A k \in names : k - 1 \in names => sp[k - 1] \notin ZNames

Meant(sp) == LeastClosed(BaseExts[sp[1]] \cup ({sp[k] : k \in 2 .. Len(sp)} \ {"underscore"}))

Possible(i) ==
    /\ i.xlen \in {32, 64} /\ WellFormed(i.exts)
    /\ i.abi \in XlenAbis[i.xlen] /\ AbiExts(i.abi) \subseteq Meant(i.exts)
    /\ i.mmu \in XlenMmus[i.xlen] /\ MmuExts(i.mmu) \subseteq Meant(i.exts)

-----------------------------------------------------------------------------
ScriptTypeOK ==
    /\ input \in Inputs
    /\ stage \in {"xlen", "base", "unprivileged", "machine", "abi", "mmu", "accepted",
               "reported", "refused"}
    /\ spec \in Seq(Symbols) /\ section \in Seq(Ext) /\ report \in Seq(Symbols)
    /\ exts \subseteq Ext

\* The script accepts exactly the configurations that are possible: names in
\* order, none twice, an ABI and an MMU that fit XLEN and extensions.  Every
\* state on the way is one of the right type, and a checked set is the set that
\* the specification means, whatever its spelling.
VerdictIsRight ==
    /\ ScriptTypeOK
    /\ stage \in {"abi", "mmu", "accepted", "reported"} => exts = Meant(input.exts)
    /\ stage \in {"accepted", "reported"} => Possible(input)
    /\ stage = "refused" => ~Possible(input)

\* The specification printed for the kernel, and in small letters for the compiler,
\* means the set that was parsed, and is as printed for the kernel well formed.
ReportReadsBack ==
    stage = "reported" => WellFormed(report) /\ Meant(report) = exts
=============================================================================
