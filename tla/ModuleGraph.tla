---------------------------- MODULE ModuleGraph ----------------------------
(***************************************************************************)
(* The module generator of the build (src/make/module.mk and the files it  *)
(* includes), which Make runs while it parses the Makefile: it includes    *)
(* the makefile of every module, nested or queued, and keeps the name of   *)
(* the running one in MODULE and SUBMODULE (ModuleName and SubmoduleName:  *)
(* the words themselves are taken in TLA+).  A name is a path, a sequence  *)
(* of words.                                                               *)
(*                                                                         *)
(* A makefile is the sequence of its statements that reach the generator:  *)
(* "generate" (eval of generate-module), "want" (MODULES +=), "part"       *)
(* (SUBMODULES +=), "noparts" (SUBMODULES :=) and "set" (any variable      *)
(* named after MODULE).  What Make has still to evaluate is one sequence,  *)
(* work; each entry knows as owner (and part) the makefile it was written  *)
(* in, which no action looks at.                                           *)
(***************************************************************************)
EXTENDS Integers, Sequences

CONSTANTS
    Projects    \* [root, files, parts, order]: the first module, makefiles by
                \* module, makefiles by path of a submodule, names in sort order

Name == Seq(STRING)
PartStatement == [op : {"part", "noparts", "set"}, arg : Name]
Statement == [op : {"generate", "want", "part", "noparts", "set"}, arg : Name]

\* Every name is in the order and every module that is named has a makefile; only
\* a module's makefile generates or wants modules.  A makefile that generates a
\* module or clears SUBMODULES does so before it adds to it: nothing else keeps
\* its parts from the modules it generates.  The name of a part is no path.
ASSUME ModuleAssumption ==
    \A p \in Projects :
        LET makefiles == {p.files[m] : m \in DOMAIN p.files} \cup {p.parts[q] : q \in DOMAIN p.parts}
            names == {p.order[k] : k \in DOMAIN p.order}
        IN /\ p.order \in Seq(Name)
           /\ p.root \in DOMAIN p.files
           /\ \A m \in DOMAIN p.files : m \in names \ {<<>>} /\ p.files[m] \in Seq(Statement)
           /\ \A q \in DOMAIN p.parts : q \in Name \ {<<>>} /\ p.parts[q] \in Seq(PartStatement)
           /\ \A f \in makefiles : \A k \in DOMAIN f :
                /\ f[k].op \in {"generate", "want"} => f[k].arg \in DOMAIN p.files
                /\ f[k].op = "part" => f[k].arg \in names \ ({<<>>} \cup DOMAIN p.parts)
                /\ f[k].op \in {"generate", "noparts"} => \A j \in 1 .. k : f[j].op # "part"

VARIABLES
    project,
    work,                   \* what Make has still to evaluate
    ModuleName, MODULE_STACK, MODULES, MODULES_GENERATED,
    SubmoduleName, SUBMODULE_STACK, SUBMODULES, SUBMODULES_GENERATED,
    defined                 \* history: the names under which rules were defined

modules == <<ModuleName, MODULE_STACK, MODULES, MODULES_GENERATED>>
submodules == <<SubmoduleName, SUBMODULE_STACK, SUBMODULES, SUBMODULES_GENERATED>>
vars == <<project, work, modules, submodules, defined>>

NONE == <<>>

Owned(statements, owner, part) ==
    [k \in DOMAIN statements |->
        [op |-> statements[k].op, arg |-> statements[k].arg, owner |-> owner, part |-> part]]

\* The Makefile: MODULES := product, then generate-modules.
Init ==
    /\ project \in Projects
    /\ work = Owned(<<[op |-> "modules", arg |-> NONE]>>, NONE, NONE)
    /\ ModuleName = NONE /\ MODULE_STACK = <<>>
    /\ MODULES = {project.root} /\ MODULES_GENERATED = {}
    /\ SubmoduleName = NONE /\ SUBMODULE_STACK = <<>>
    /\ SUBMODULES = {} /\ SUBMODULES_GENERATED = {}
    /\ defined = <<>>

-----------------------------------------------------------------------------
Evaluate(op) == work # <<>> /\ Head(work).op = op
Arg == Head(work).arg

\* $(filter ...): what is in names stays, in its order.
Filter(names, list) ==
    LET kept[n \in 0 .. Len(list)] ==
            IF n = 0 THEN <<>>
            ELSE IF list[n] \in names THEN Append(kept[n - 1], list[n]) ELSE kept[n - 1]
    IN kept[Len(list)]

Sorted(names) == Filter(names, project.order)
Each(op, names) == [k \in DOMAIN names |-> [op |-> op, arg |-> names[k]]]
Do(statements) ==
    work' = Owned(statements, Head(work).owner, Head(work).part) \o Tail(work)

\* A plausible mistake: the outermost makefile is pushed like any other.
PushAlways(stack, name) == Append(stack, name)

\* $(strip $(STACK) $(NAME)): an empty name is not pushed.
Push(stack, name) == IF name = NONE THEN stack ELSE Append(stack, name)
LastWord(stack) == IF stack = <<>> THEN NONE ELSE stack[Len(stack)]

\* The macro tail, which drops the last word of its list.
TailOf(list) == IF list = <<>> THEN <<>> ELSE SubSeq(list, 1, Len(list) - 1)

\* Plausible mistakes: what is there already is not filtered out, and the list
\* stays; nobody looks again; the list is not in order.
GenerateModulesUnfiltered ==
    /\ Evaluate("modules")
    /\ Do(Append(Each("generate", Sorted(MODULES)), [op |-> "modules", arg |-> NONE]))
    /\ UNCHANGED <<project, modules, submodules, defined>>

GenerateModulesOnce ==
    /\ Evaluate("modules")
    /\ Do(Each("generate", Sorted(MODULES \ MODULES_GENERATED)))
    /\ MODULES' = {}
    /\ UNCHANGED <<project, ModuleName, MODULE_STACK, MODULES_GENERATED, submodules, defined>>

GenerateModulesBackwards ==
    /\ Evaluate("modules")
    /\ LET wanted == Sorted(MODULES \ MODULES_GENERATED)
           back == [k \in DOMAIN wanted |-> wanted[Len(wanted) + 1 - k]]
       IN Do(IF wanted = <<>> THEN <<>>
             ELSE Append(Each("generate", back), [op |-> "modules", arg |-> NONE]))
    /\ MODULES' = {}
    /\ UNCHANGED <<project, ModuleName, MODULE_STACK, MODULES_GENERATED, submodules, defined>>

\* generate-modules.mk: generate what is wanted and not there yet, then look
\* again for what that has wanted.
GenerateModules ==
    /\ Evaluate("modules")
    /\ LET wanted == Sorted(MODULES \ MODULES_GENERATED)
       IN Do(IF wanted = <<>> THEN <<>>
             ELSE Append(Each("generate", wanted), [op |-> "modules", arg |-> NONE]))
    /\ MODULES' = {}
    /\ UNCHANGED <<project, ModuleName, MODULE_STACK, MODULES_GENERATED, submodules, defined>>

GenerateModule ==
    /\ Evaluate("generate") /\ Arg \notin MODULES_GENERATED
    /\ MODULES_GENERATED' = MODULES_GENERATED \cup {Arg}
    /\ MODULE_STACK' = Push(MODULE_STACK, ModuleName)
    /\ ModuleName' = Arg
    /\ work' = Owned(project.files[Arg] \o <<[op |-> "submodules", arg |-> NONE],
                                             [op |-> "define", arg |-> NONE],
                                             [op |-> "leave", arg |-> NONE]>>, Arg, NONE)
               \o Tail(work)
    /\ UNCHANGED <<project, MODULES, submodules, defined>>

GeneratedAlready ==
    /\ Evaluate("generate") /\ Arg \in MODULES_GENERATED
    /\ Do(<<>>)
    /\ UNCHANGED <<project, modules, submodules, defined>>

\* The rules of the module's types, under the name that ModuleName has now.
DefineModule ==
    /\ Evaluate("define")
    /\ defined' = Append(defined, ModuleName)
    /\ Do(<<>>)
    /\ UNCHANGED <<project, modules, submodules>>

LeaveModule ==
    /\ Evaluate("leave")
    /\ ModuleName' = LastWord(MODULE_STACK)
    /\ MODULE_STACK' = TailOf(MODULE_STACK)
    /\ Do(<<>>)
    /\ UNCHANGED <<project, MODULES, MODULES_GENERATED, submodules, defined>>

-----------------------------------------------------------------------------
\* generate-submodules.mk.  Its filter compares the names, which are relative to
\* what is running, with full paths; generate-submodule looks the path up.
GenerateSubmodules ==
    /\ Evaluate("submodules")
    /\ LET wanted == Sorted(SUBMODULES \ SUBMODULES_GENERATED)
       IN Do(IF wanted = <<>> THEN <<>>
             ELSE Append(Each("submodule", wanted), [op |-> "submodules", arg |-> NONE]))
    /\ SUBMODULES' = {}
    /\ UNCHANGED <<project, modules, SubmoduleName, SUBMODULE_STACK, SUBMODULES_GENERATED, defined>>

\* A plausible mistake: a submodule's path starts at the module.
PathFromModule == ModuleName \o Arg

Path == IF SubmoduleName = NONE THEN ModuleName \o Arg ELSE SubmoduleName \o Arg

\* Without the submodule's makefile Make gives up.
GenerateSubmodule ==
    /\ Evaluate("submodule") /\ Path \notin SUBMODULES_GENERATED
    /\ Path \in DOMAIN project.parts
    /\ SUBMODULES_GENERATED' = SUBMODULES_GENERATED \cup {Path}
    /\ SUBMODULE_STACK' = Push(SUBMODULE_STACK, SubmoduleName)
    /\ SubmoduleName' = Path
    /\ work' = Owned(project.parts[Path] \o <<[op |-> "submodules", arg |-> NONE],
                                              [op |-> "append", arg |-> NONE],
                                              [op |-> "leave_sub", arg |-> NONE]>>,
                     Head(work).owner, Head(work).part \o Arg)
               \o Tail(work)
    /\ UNCHANGED <<project, modules, SUBMODULES, defined>>

SubmoduleGeneratedAlready ==
    /\ Evaluate("submodule") /\ Path \in SUBMODULES_GENERATED
    /\ Do(<<>>)
    /\ UNCHANGED <<project, modules, submodules, defined>>

LeaveSubmodule ==
    /\ Evaluate("leave_sub")
    /\ SubmoduleName' = LastWord(SUBMODULE_STACK)
    /\ SUBMODULE_STACK' = TailOf(SUBMODULE_STACK)
    /\ Do(<<>>)
    /\ UNCHANGED <<project, modules, SUBMODULES, SUBMODULES_GENERATED, defined>>

-----------------------------------------------------------------------------
Want ==
    /\ Evaluate("want")
    /\ MODULES' = MODULES \cup {Arg}
    /\ Do(<<>>)
    /\ UNCHANGED <<project, ModuleName, MODULE_STACK, MODULES_GENERATED, submodules, defined>>

Part ==
    /\ Evaluate("part")
    /\ SUBMODULES' = SUBMODULES \cup {Arg}
    /\ Do(<<>>)
    /\ UNCHANGED <<project, modules, SubmoduleName, SUBMODULE_STACK, SUBMODULES_GENERATED, defined>>

NoParts ==
    /\ Evaluate("noparts")
    /\ SUBMODULES' = {}
    /\ Do(<<>>)
    /\ UNCHANGED <<project, modules, SubmoduleName, SUBMODULE_STACK, SUBMODULES_GENERATED, defined>>

\* Variables named after ModuleName or SubmoduleName: those a makefile sets, and the
\* module's, to which a submodule's are appended.
Set ==
    /\ Evaluate("set") \/ Evaluate("append")
    /\ Do(<<>>)
    /\ UNCHANGED <<project, modules, submodules, defined>>

Next ==
    \/ GenerateModules \/ GenerateModule \/ GeneratedAlready \/ DefineModule \/ LeaveModule
    \/ GenerateSubmodules \/ GenerateSubmodule \/ SubmoduleGeneratedAlready \/ LeaveSubmodule
    \/ Want \/ Part \/ NoParts \/ Set

Spec == Init /\ [][Next]_vars

\* Make goes on parsing.
FairSpec == Spec /\ WF_vars(Next)

-----------------------------------------------------------------------------
Files == DOMAIN project.files
Paths == DOMAIN project.parts
Defined == {defined[k] : k \in DOMAIN defined}

TypeOK ==
    /\ ModuleName \in Files \cup {NONE} /\ MODULE_STACK \in Seq(Files)
    /\ MODULES \subseteq Files /\ MODULES_GENERATED \subseteq Files
    /\ SubmoduleName \in Paths \cup {NONE} /\ SUBMODULE_STACK \in Seq(Paths)
    /\ SUBMODULES_GENERATED \subseteq Paths
    /\ defined \in Seq(Files \cup {NONE})

\* However modules and submodules nest, while Make evaluates a line of a
\* makefile ModuleName and SubmoduleName name the makefile that the line is in: no
\* module's variables, parts or rules go to another one.
LinesRunUnderTheirName ==
    IF work = <<>> THEN ModuleName = NONE /\ SubmoduleName = NONE
    ELSE /\ ModuleName = Head(work).owner
         /\ SubmoduleName = IF Head(work).part = NONE THEN NONE
                            ELSE Head(work).owner \o Head(work).part

Args(ops, statements) ==
    {statements[k].arg : k \in {i \in DOMAIN statements : statements[i].op \in ops}}

Uses(m) == Args({"generate", "want"}, project.files[m])

\* What can be reached from the first module.
Closed(ms) == project.root \in ms /\ \A m \in ms : Uses(m) \subseteq ms
Reachable == {m \in Files : \A ms \in SUBSET Files : Closed(ms) => m \in ms}

PartsNamed ==
    UNION ({{m \o s : s \in Args({"part"}, project.files[m])} : m \in MODULES_GENERATED}
           \cup {{q \o s : s \in Args({"part"}, project.parts[q])} : q \in SUBMODULES_GENERATED})

\* No rule is ever defined twice, also where modules generate each other in a
\* circle or are both nested and queued; and when Make has parsed everything,
\* exactly the modules that the first one reaches have their rules, each with
\* exactly the submodules that it and they name.
EveryModuleOnce ==
    /\ \A i, j \in DOMAIN defined : defined[i] = defined[j] => i = j
    /\ work = <<>> =>
        /\ Defined = Reachable /\ MODULES_GENERATED = Reachable
        /\ SUBMODULES_GENERATED = PartsNamed

product == <<"product">>
board == <<"board">>
platform == <<"platform">>
arch == <<"arch">>
emulator == <<"emulator">>
kernel == <<"kernel">>

\* The makefiles of a project that generate or that want a module.
UsersOf(p, op, m) == {u \in DOMAIN p.files : m \in Args({op}, p.files[u])}

\* How the makefiles lead to the kernel's: from product to arch each alone queues
\* the next, arch's queues the kernel, and only the emulator's generates it.  The
\* emulator, behind arch in the order, is queued by modules that platform generates.
ASSUME KernelAssumption ==
    \A p \in Projects : kernel \in DOMAIN p.files =>
        /\ p.root = product
        /\ \A pair \in {<<product, board>>, <<board, platform>>, <<platform, arch>>} :
             UsersOf(p, "want", pair[2]) = {pair[1]} /\ UsersOf(p, "generate", pair[2]) = {}
        /\ UsersOf(p, "want", kernel) = {arch} /\ UsersOf(p, "generate", kernel) \subseteq {emulator}
        /\ UsersOf(p, "generate", emulator) = {}
        /\ \A u \in UsersOf(p, "want", emulator) :
             u # product /\ UsersOf(p, "want", u) = {} /\ UsersOf(p, "generate", u) \subseteq {platform}
        /\ \A j, k \in DOMAIN p.order : p.order[j] = arch /\ p.order[k] = emulator => j < k

\* The kernel's makefile reads variables of product, board, platform and arch
\* when it is included: by then their makefiles have been evaluated to the end.
\* Generating product in kernel/module.mk would not be enough for that; the
\* order of the queue is what achieves it.
ConfiguredBeforeKernel ==
    work # <<>> /\ Head(work).owner = kernel /\ Head(work).op = "set" =>
        {product, board, platform, arch} \subseteq Defined

\* Generation ends, on circular uses too.
GenerationEnds == <>(work = <<>>)
=============================================================================
