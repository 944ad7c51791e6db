---------------------------- MODULE ConfigHeader ----------------------------
(***************************************************************************)
(* How a change of configuration reaches the compiled kernel: Make lists   *)
(* the settings and has the script write the object header on every run    *)
(* (src/make/generator/config-module.mk), a rule deploys it if it differs  *)
(* from the header in use (src/make/generator/config.py), and objects are  *)
(* compiled again when that header is newer than they are.                 *)
(*                                                                         *)
(* Make and its children may be killed between any two writes.  A header   *)
(* is its #define lines, a function from names to values.  Every write     *)
(* gets a later time stamp than the one before.                            *)
(***************************************************************************)
EXTENDS Integers, Sequences

CONSTANTS
    Items,       \* [key, value]: the settings there are, in the order of Make's sort
    Sources,     \* the files that are compiled
    Configs,     \* the lists of settings (positions in Items) users make
    MaxMakes     \* bound: runs of Make

ASSUME HeaderAssumption ==
    /\ Items \in Seq([key : STRING, value : STRING])
    /\ Configs \subseteq Seq(1 .. Len(Items))
    /\ MaxMakes \in Nat

VARIABLES
    config,      \* $(MODULE).CONFIG as the makefiles have set it
    pc,          \* idle, list, generate, fill, check, deploy, copy, compile, built
    makes,       \* runs of Make so far
    obj_lst,     \* the file of settings, one per line; removed when empty
    obj, out,    \* the object header and the header in use
    objects,     \* per source, the header its object has been compiled with
    clock,       \* the time stamp of the last write
    failed,      \* history: the script failed in this run of Make
    last         \* history: the header of the last build, while it is in use

files == <<obj_lst, obj, out, objects, clock>>
vars == <<config, pc, makes, files, failed, last>>

\* A file never written is older than any other; one being written is not whole.
Header(time, whole, defines) == [time |-> time, whole |-> whole, defines |-> defines]
Missing == Header(0, FALSE, <<>>)
Content(file) == [whole |-> file.whole, defines |-> file.defines]

-----------------------------------------------------------------------------
InList(list) == {list[k] : k \in DOMAIN list}

\* A plausible mistake: the settings stay in the order they were made in.
AsMade(i, j) == \E k \in DOMAIN config : config[k] = i /\ \A l \in 1 .. k : config[l] # j

\* The order of $(sort ...), which also drops duplicates.
Precedes(i, j) == i < j

\* The settings the loop over the sorted list has still to come to, and the next.
Unlisted == InList(config) \ InList(obj_lst)
NextItem == CHOOSE i \in Unlisted : \A j \in Unlisted \ {i} : Precedes(i, j)

ValueOf(i) == IF Items[i].value = "" THEN "1" ELSE Items[i].value

\* parse_items: a key keeps the first of its values, others are only reported.  A
\* line that is no setting would be skipped; the list of Make holds none.
FirstOfKey(lines, k) == \A j \in 1 .. k - 1 : Items[lines[j]].key # Items[lines[k]].key

ParseItems(lines) ==
    [key \in {Items[lines[k]].key : k \in DOMAIN lines} |->
        ValueOf(lines[CHOOSE k \in DOMAIN lines :
                        Items[lines[k]].key = key /\ FirstOfKey(lines, k)])]

-----------------------------------------------------------------------------
Init ==
    /\ config \in Configs
    /\ pc = "idle" /\ makes = 0
    /\ obj_lst = <<>>
    /\ obj = Missing /\ out = Missing /\ objects = [s \in Sources |-> Missing]
    /\ clock = 0
    /\ failed = FALSE
    /\ last = Missing

Configure ==
    /\ pc = "idle" /\ makes < MaxMakes
    /\ config' \in Configs
    /\ UNCHANGED <<pc, makes, files, failed, last>>

StartMake ==
    /\ pc \in {"idle", "built"} /\ makes < MaxMakes
    /\ pc' = "list" /\ makes' = makes + 1
    /\ obj_lst' = <<>>
    /\ failed' = FALSE
    /\ UNCHANGED <<config, obj, out, objects, clock, last>>

\* One shell per setting appends its line.
EchoItem ==
    /\ pc = "list"
    /\ IF Unlisted # {}
       THEN obj_lst' = Append(obj_lst, NextItem) /\ UNCHANGED pc
       ELSE pc' = "generate" /\ UNCHANGED obj_lst
    /\ UNCHANGED <<config, makes, obj, out, objects, clock, failed, last>>

\* do_generate: opening the object header empties it.  Without a single setting
\* there is no list to read, and the script always fails.
OpenObject ==
    /\ pc = "generate" /\ obj_lst # <<>> /\ pc' = "fill"
    /\ clock' = clock + 1
    /\ obj' = Header(clock', FALSE, <<>>)
    /\ UNCHANGED <<config, makes, obj_lst, out, objects, failed, last>>

Generate ==
    /\ pc = "fill" /\ pc' = "check"
    /\ clock' = clock + 1
    /\ obj' = Header(clock', TRUE, ParseItems(obj_lst))
    /\ UNCHANGED <<config, makes, obj_lst, out, objects, failed, last>>

\* Make does not look at the script's status, before or after the truncation.
GenerateFails ==
    /\ pc \in {"generate", "fill"} /\ pc' = "check"
    /\ failed' = TRUE
    /\ UNCHANGED <<config, makes, files, last>>

\* The rule of the header in use; without an object header Make gives up.
CheckHeader ==
    /\ pc = "check"
    /\ pc' = IF obj = Missing THEN "idle"
             ELSE IF out.time < obj.time THEN "deploy" ELSE "compile"
    /\ UNCHANGED <<config, makes, files, failed, last>>

\* A plausible mistake: the header in use is kept as soon as there is one.
DeployOnce ==
    /\ pc = "deploy"
    /\ IF out # Missing
       THEN pc' = "compile" /\ UNCHANGED <<out, clock, last>>
       ELSE /\ pc' = "copy"
            /\ clock' = clock + 1
            /\ out' = Header(clock', FALSE, <<>>)
            /\ last' = Missing
    /\ UNCHANGED <<config, makes, obj_lst, obj, objects, failed>>

\* do_deploy: the header in use is opened, and emptied, only if it differs.
Deploy ==
    /\ pc = "deploy"
    /\ IF out # Missing /\ Content(out) = Content(obj)
       THEN pc' = "compile" /\ UNCHANGED <<out, clock, last>>
       ELSE /\ pc' = "copy"
            /\ clock' = clock + 1
            /\ out' = Header(clock', FALSE, <<>>)
            /\ last' = Missing
    /\ UNCHANGED <<config, makes, obj_lst, obj, objects, failed>>

Copy ==
    /\ pc = "copy" /\ pc' = "compile"
    /\ clock' = clock + 1
    /\ out' = Header(clock', obj.whole, obj.defines)
    /\ UNCHANGED <<config, makes, obj_lst, obj, objects, failed, last>>

\* Objects depend on the header in use; Make may compile them in any order.
Compile(s) ==
    /\ pc = "compile" /\ objects[s].time < out.time
    /\ clock' = clock + 1
    /\ objects' = [objects EXCEPT ![s] = Header(clock', out.whole, out.defines)]
    /\ UNCHANGED <<config, pc, makes, obj_lst, obj, out, failed, last>>

Link ==
    /\ pc = "compile" /\ \A s \in Sources : objects[s].time >= out.time
    /\ pc' = "built"
    /\ last' = out
    /\ UNCHANGED <<config, makes, files, failed>>

\* Make and its children are killed, or the build has been taken notice of.
Stop ==
    /\ pc # "idle" /\ pc' = "idle"
    /\ UNCHANGED <<config, makes, files, failed, last>>

Next ==
    \/ Configure \/ StartMake \/ EchoItem \/ OpenObject \/ Generate \/ GenerateFails
    \/ CheckHeader \/ Deploy \/ Copy \/ (\E s \in Sources : Compile(s)) \/ Link \/ Stop

Spec == Init /\ [][Next]_vars

-----------------------------------------------------------------------------
\* What the settings ask for: per name the value that is first in sort order.
Wanted ==
    LET chosen == {i \in InList(config) :
                    \A j \in InList(config) : j < i => Items[j].key # Items[i].key}
    IN [key \in {Items[i].key : i \in chosen} |->
            ValueOf(CHOOSE i \in chosen : Items[i].key = key)]

TypeOK ==
    /\ config \in Configs /\ makes \in 0 .. MaxMakes
    /\ pc \in {"idle", "list", "generate", "fill", "check", "deploy", "copy", "compile", "built"}
    /\ obj_lst \in Seq(1 .. Len(Items))
    /\ obj.time <= clock /\ out.time <= clock
    /\ \A s \in Sources : objects[s].time <= clock
    /\ failed \in BOOLEAN

\* However earlier runs were cut off or failed, a build that ends without a
\* failure of the script has compiled the kernel with the header that the
\* settings ask for.
BuildIsCurrent ==
    /\ TypeOK
    /\ pc = "built" /\ ~failed =>
        /\ out.whole /\ out.defines = Wanted
        /\ \A s \in Sources : Content(objects[s]) = Content(out)

\* As long as the settings ask for the same header, listed in any order and with
\* any duplicates, no run of Make in which the script succeeds touches the header in
\* use or the objects.
NoNeedlessBuild ==
    [][last # Missing /\ last.whole /\ last.defines = Wanted /\ ~failed =>
        out' = out /\ objects' = objects]_vars
=============================================================================
